---------------------------- MODULE Spec2Model ----------------------------
(***************************************************************************)
(* ShiftScheduler: the scheduling engine (constraint validator, penalty    *)
(* scorer, simulated-annealing search), the worker entry point and the     *)
(* useScheduler hook.                                                      *)
(*                                                                         *)
(* Representation notes.                                                   *)
(*  - A ScheduleMap (a JS Map<string, string[]>) is a sequence of entries  *)
(*    [key, value] in insertion order; value is the array of employee ids. *)
(*  - Instants are integers in milliseconds.                               *)
(*  - The soft score is a JS number that is a multiple of 1/n^2 for n      *)
(*    employees; it is kept exactly as the integer score * ScoreDen, and   *)
(*    energies are kept on the same scale.  Floating point rounding is not *)
(*    modelled.                                                            *)
(***************************************************************************)
EXTENDS Integers, Sequences, FiniteSets, TLC

VARIABLES
    employees,              \* Employee[] handed to the engine
    shifts,                 \* Shift[] handed to the engine
    options,                \* SchedulerOptions
    pc,                     \* position in runHeuristicSearch
    i,                      \* loop counter of runHeuristicSearch
    iterations,             \* loop bodies entered so far (observer)
    temperature,            \* fixed point, TempScale units make 1.0
    currentSchedule, currentEnergy, currentHardViolations, currentSoftPenalty,
    bestSchedule, bestEnergy, bestHardViolations, bestSoftPenalty,
    neighborSchedule,       \* the neighbor of the latest iteration
    neighborEnergy,
    lastMove,               \* what the latest iteration did (observer)
    result,                 \* the returned ScheduleEvaluation
    evalPc,                 \* pure-function harness: what was applied
    evalSchedule,           \* pure-function harness: the schedule given
    evalMove,               \* pure-function harness: the latest mutation's move
    hardResult,             \* pure-function harness: validateHardConstraints(...)
    softResult,             \* pure-function harness: calculatePenaltyScore(...)
    isGenerating,           \* useScheduler: the isGenerating state
    closureIsGenerating,    \* isGenerating as captured by the current
                            \* generateSchedule closure (latest render)
    workerCreated,          \* useScheduler: workerRef.current is set
    handlerOwner,           \* call whose resolve/reject the worker's
                            \* onmessage and onerror handlers hold (0: none)
    promises,               \* one record per generateSchedule call
    workerInbox,            \* request messages posted, not yet handled
    mainInbox,              \* response messages posted, not yet delivered
    handled,                \* requests the worker's onmessage has handled
    posted,                 \* messages the worker has posted
    errors,                 \* error events the worker has raised
    stream,                 \* replay harness: the values Math.random() returns
    cursor,                 \* replay harness: values consumed by the run
    runNo,                  \* replay harness: which call is running (1, 2)
    firstResult,            \* replay harness: what the first call returned
    arrays,                 \* object harness: the string[] objects, by address
    maps,                   \* object harness: the Map objects, by address;
                            \* each a sequence of [key, ref to a string[]]
    currentRef,             \* object harness: the Map currentSchedule refers to
    bestRef,                \* object harness: the Map bestSchedule refers to
    neighborRef             \* object harness: the Map neighborSchedule refers to

searchVars == <<employees, shifts, options, pc, i, iterations, temperature,
                currentSchedule, currentEnergy, currentHardViolations,
                currentSoftPenalty, bestSchedule, bestEnergy,
                bestHardViolations, bestSoftPenalty, neighborSchedule,
                neighborEnergy, lastMove, result>>

evalVars == <<evalPc, evalSchedule, evalMove, hardResult, softResult>>

boundaryVars == <<isGenerating, closureIsGenerating, workerCreated,
                  handlerOwner, promises, workerInbox, mainInbox, handled,
                  posted, errors>>

streamVars == <<stream, cursor, runNo, firstResult>>

heapVars == <<arrays, maps, currentRef, bestRef, neighborRef>>

vars == <<searchVars, evalVars, boundaryVars, streamVars, heapVars>>

---------------------------------------------------------------------------
(* Bounds of the model.                                                    *)

\* Employees of a search, and the largest maxIterations option tried.
MaxEmployees == 2
MaxIter == 2
\* Employees, and assignments in all, of a schedule handed to the pure
\* functions.
HarnessEmployees == 3
MaxAssigned == 4
\* Calls of generateSchedule, and error events of the worker.
MaxCalls == 3
MaxErrors == 1
\* Night shifts of the long roster.
LongNights == 46
\* Values of the repeating random stream.
SeedLen == 6

---------------------------------------------------------------------------
(* Program constants.                                                      *)

MsPerHour == 1000 * 60 * 60
MIN_REST_HOURS == 8
HARD_PENALTY == 10000
DEFAULT_MAX_ITERATIONS == 5000
DEFAULT_START_TEMPERATURE == 100
COOLING_RATE_PERCENT == 95
\* Temperatures are fixed point: TempScale units make 1.0, so that the
\* floor 0.0001 is one unit.
TempScale == 10000
\* Math.exp(x) is 0 for x below about -745.
EXP_UNDERFLOW == 745
HOOK_MAX_ITERATIONS == 10000
STUB_PENALTY_SCORE == 9999

NoPenalty == [score |-> 0, violations |-> <<>>]
NoMove == [move |-> "none", accepted |-> FALSE]
NoResult == [schedule |-> <<>>, isValid |-> FALSE, penaltyScore |-> 0,
             constraintViolations |-> <<>>]

---------------------------------------------------------------------------
(* Sequence helpers.                                                       *)

Range(s) == {s[x] : x \in 1..Len(s)}

Includes(s, e) == \E x \in 1..Len(s) : s[x] = e

RECURSIVE SumSeq(_)
SumSeq(s) == IF s = <<>> THEN 0 ELSE Head(s) + SumSeq(Tail(s))

Splice(s, x) == SubSeq(s, 1, x - 1) \o SubSeq(s, x + 1, Len(s))

Abs(x) == IF x < 0 THEN -x ELSE x

NoDuplicates(s) == \A x, y \in 1..Len(s) : x # y => s[x] # s[y]

---------------------------------------------------------------------------
(* Domain model (types.ts).                                                *)

Employee(id) == [id |-> id, vacationDates |-> {}]

Shift(id, date, startHour, endHour, type, minReq) ==
    [id |-> id, date |-> date,
     startTime |-> startHour * MsPerHour, endTime |-> endHour * MsPerHour,
     type |-> type, minRequiredEmployees |-> minReq]

(* ScheduleMap: Map<string, string[]> in insertion order.                  *)
MapKeys(m) == [x \in 1..Len(m) |-> m[x].key]

MapHas(m, k) == \E x \in 1..Len(m) : m[x].key = k

MapGet(m, k) == m[CHOOSE x \in 1..Len(m) : m[x].key = k].value

MapSet(m, k, v) ==
    IF MapHas(m, k)
    THEN [x \in 1..Len(m) |-> IF m[x].key = k THEN [key |-> k, value |-> v] ELSE m[x]]
    ELSE Append(m, [key |-> k, value |-> v])

ConstraintViolation(ruleCode, type, message, employeeIds, shiftIds) ==
    [ruleCode |-> ruleCode, type |-> type, message |-> message,
     employeeIds |-> employeeIds, shiftIds |-> shiftIds]

---------------------------------------------------------------------------
(* ScoringEngine: grouping of the assigned shifts per employee.            *)

(* shifts.find(s => s.id === shiftId)                                      *)
HasShift(shiftList, shiftId) ==
    \E x \in 1..Len(shiftList) : shiftList[x].id = shiftId

FindShift(shiftList, shiftId) ==
    LET first == CHOOSE x \in 1..Len(shiftList) :
                    /\ shiftList[x].id = shiftId
                    /\ \A y \in 1..(x - 1) : shiftList[y].id # shiftId
    IN  shiftList[first]

(* The (employee id, shift) pairs in the order the two nested forEach      *)
(* visit them; entries whose shift id is unknown are skipped.              *)
RECURSIVE AssignmentPairs(_, _)
AssignmentPairs(schedule, shiftList) ==
    IF schedule = <<>> THEN <<>>
    ELSE LET entry == Head(schedule)
             here  == IF ~HasShift(shiftList, entry.key) THEN <<>>
                      ELSE [x \in 1..Len(entry.value) |->
                               [empId |-> entry.value[x],
                                shift |-> FindShift(shiftList, entry.key)]]
         IN  here \o AssignmentPairs(Tail(schedule), shiftList)

(* Keys of employeeShifts in Map insertion order (first appearance).       *)
RECURSIVE FirstAppearance(_, _)
FirstAppearance(ids, seen) ==
    IF ids = <<>> THEN <<>>
    ELSE IF Head(ids) \in seen THEN FirstAppearance(Tail(ids), seen)
         ELSE <<Head(ids)>> \o FirstAppearance(Tail(ids), seen \cup {Head(ids)})

EmployeeShiftKeys(pairs) ==
    FirstAppearance([x \in 1..Len(pairs) |-> pairs[x].empId], {})

(* employeeShifts.get(empId): the shifts pushed for empId, in push order.  *)
RECURSIVE EmployeeShiftsOf(_, _)
EmployeeShiftsOf(pairs, empId) ==
    IF pairs = <<>> THEN <<>>
    ELSE (IF Head(pairs).empId = empId THEN <<Head(pairs).shift>> ELSE <<>>)
         \o EmployeeShiftsOf(Tail(pairs), empId)

(* Array.prototype.sort with (a, b) => a.startTime - b.startTime: stable.  *)
RECURSIVE InsertByStart(_, _)
InsertByStart(sorted, s) ==
    IF sorted = <<>> THEN <<s>>
    ELSE IF Head(sorted).startTime <= s.startTime
         THEN <<Head(sorted)>> \o InsertByStart(Tail(sorted), s)
         ELSE <<s>> \o sorted

(* Mutant: the shifts are left in push order.                              *)
SortByStartSkipped(list) == list

RECURSIVE SortByStart(_)
SortByStart(list) ==
    IF list = <<>> THEN <<>>
    ELSE InsertByStart(SortByStart(SubSeq(list, 1, Len(list) - 1)), list[Len(list)])

---------------------------------------------------------------------------
(* ScoringEngine.validateHardConstraints                                   *)

(* Mutant: the gap is measured from the start of the earlier shift.        *)
RestViolationsFromStart(sortedShifts) ==
    {x \in 1..(Len(sortedShifts) - 1) :
        sortedShifts[x + 1].startTime - sortedShifts[x].startTime
            < MIN_REST_HOURS * MsPerHour}

(* Indices i of sortedShifts whose pair (i, i+1) leaves less than 8 hours: *)
(* msDifference / (1000*60*60) < 8, i.e. msDifference < 8 * MsPerHour.     *)
RestViolationsAt(sortedShifts) ==
    {x \in 1..(Len(sortedShifts) - 1) :
        sortedShifts[x + 1].startTime - sortedShifts[x].endTime
            < MIN_REST_HOURS * MsPerHour}

validateHardConstraints(schedule, employeeList, shiftList) ==
    LET pairs  == AssignmentPairs(schedule, shiftList)
        keys   == EmployeeShiftKeys(pairs)
        sorted(k) == SortByStart(EmployeeShiftsOf(pairs, keys[k]))
        bad    == {k \in 1..Len(keys) : RestViolationsAt(sorted(k)) # {}}
    IN  IF bad = {} THEN <<>>
        ELSE LET k  == CHOOSE k \in bad : \A k2 \in bad : k <= k2
                 ss == sorted(k)
                 x  == CHOOSE x \in RestViolationsAt(ss) :
                          \A x2 \in RestViolationsAt(ss) : x <= x2
             IN  <<ConstraintViolation(
                      "MINIMUM_REST_VIOLATION", "hard",
                      <<keys[k], ss[x].id, ss[x + 1].id,
                        ss[x + 1].startTime - ss[x].endTime>>,
                      <<keys[k]>>, <<ss[x].id, ss[x + 1].id>>)>>

---------------------------------------------------------------------------
(* ScoringEngine.calculatePenaltyScore                                     *)

(* The score is a multiple of 1 / employees.length^2; results carry the    *)
(* exact integer score * ScoreDen(employees).                              *)
ScoreDen(employeeList) ==
    IF Len(employeeList) = 0 THEN 1 ELSE Len(employeeList) * Len(employeeList)

NightsOf(pairs, empId) ==
    Len(SelectSeq(EmployeeShiftsOf(pairs, empId), LAMBDA s : s.type = "night"))

(* Keys of nightShiftCounts in Object.entries order: the employees of the  *)
(* list, then every other employee id met in the schedule.                 *)
NightShiftCountKeys(pairs, employeeList) ==
    LET listed == FirstAppearance([x \in 1..Len(employeeList) |-> employeeList[x].id], {})
    IN  listed \o FirstAppearance(EmployeeShiftKeys(pairs), Range(listed))

(* nightShiftCounts[k]: 0 from the initialisation unless the employee has  *)
(* an entry in employeeShifts, whose night count then overwrites it.       *)
NightShiftCount(pairs, empId) ==
    IF Includes(EmployeeShiftKeys(pairs), empId) THEN NightsOf(pairs, empId) ELSE 0

(* Mutant: a deviation of exactly 1 is penalised too.                      *)
IsUnfairFromOne(count, totalNights, n) == Abs(count * n - totalNights) >= n

(* deviation > 1 with deviation = |count - totalNights / n|, that is       *)
(* |count * n - totalNights| > n.                                          *)
IsUnfair(count, totalNights, n) == Abs(count * n - totalNights) > n

calculatePenaltyScore(schedule, employeeList, shiftList) ==
    LET pairs  == AssignmentPairs(schedule, shiftList)
        keys   == NightShiftCountKeys(pairs, employeeList)
        counts == [k \in 1..Len(keys) |-> NightShiftCount(pairs, keys[k])]
        totalNights == SumSeq(counts)
        n      == Len(employeeList)
        unfair == {k \in 1..Len(keys) : IsUnfair(counts[k], totalNights, n)}
        \* (deviation^2 * 10) * n^2
        penalty(k) == (counts[k] * n - totalNights) * (counts[k] * n - totalNights) * 10
        unfairSeq == SelectSeq([k \in 1..Len(keys) |-> k], LAMBDA k : k \in unfair)
    IN  IF totalNights > 0 /\ n > 0
        THEN [score |-> SumSeq([x \in 1..Len(unfairSeq) |-> penalty(unfairSeq[x])]),
              violations |->
                 [x \in 1..Len(unfairSeq) |->
                     ConstraintViolation(
                         "UNEVEN_NIGHT_SHIFTS", "soft",
                         <<keys[unfairSeq[x]], counts[unfairSeq[x]], totalNights, n,
                           penalty(unfairSeq[x])>>,
                         <<keys[unfairSeq[x]]>>, <<>>)]]
        ELSE [score |-> 0, violations |-> <<>>]

---------------------------------------------------------------------------
(* Scheduler.generateRandomInitialSchedule                                 *)

(* The inner loop: minRequired picks without replacement, stopping when    *)
(* availableEmployees is empty.  Every Math.random() outcome is covered.   *)
RECURSIVE PickEmployees(_, _)
PickEmployees(availableEmployees, remaining) ==
    IF remaining <= 0 \/ availableEmployees = <<>> THEN {<<>>}
    ELSE UNION {
            {<<availableEmployees[x].id>> \o rest :
                rest \in PickEmployees(Splice(availableEmployees, x), remaining - 1)}
            : x \in 1..Len(availableEmployees)}

RECURSIVE InitialSchedules(_, _, _)
InitialSchedules(schedule, employeeList, rest) ==
    IF rest = <<>> THEN {schedule}
    ELSE UNION {
            InitialSchedules(MapSet(schedule, Head(rest).id, assigned),
                             employeeList, Tail(rest))
            : assigned \in PickEmployees(employeeList, Head(rest).minRequiredEmployees)}

(* Mutant: the inner loop stops one pick short.                            *)
generateInitialScheduleOneShort(employeeList, shiftList) ==
    InitialSchedules(<<>>, employeeList,
        [x \in 1..Len(shiftList) |->
            [shiftList[x] EXCEPT !.minRequiredEmployees = @ - 1]])

(* Mutant: the inner loop makes one pick too many.                         *)
generateInitialScheduleOneOver(employeeList, shiftList) ==
    InitialSchedules(<<>>, employeeList,
        [x \in 1..Len(shiftList) |->
            [shiftList[x] EXCEPT !.minRequiredEmployees = @ + 1]])

generateRandomInitialSchedule(employeeList, shiftList) ==
    InitialSchedules(<<>>, employeeList, shiftList)

---------------------------------------------------------------------------
(* Scheduler.cloneSchedule, Scheduler.mutateSchedule                       *)

(* Mutant: entries with an empty array are not copied.                     *)
cloneScheduleSkippingEmpty(schedule) ==
    SelectSeq(schedule, LAMBDA entry : entry.value # <<>>)

(* A new Map with a copy of every array: the same value, sharing nothing.  *)
cloneSchedule(schedule) ==
    [x \in 1..Len(schedule) |->
        [key |-> schedule[x].key,
         value |-> [y \in 1..Len(schedule[x].value) |-> schedule[x].value[y]]]]

(* mutated.get(id) || []                                                   *)
GetOrEmpty(schedule, shiftId) ==
    IF MapHas(schedule, shiftId) THEN MapGet(schedule, shiftId) ELSE <<>>

(* employees.filter(e => !assignedIds.includes(e.id))                      *)
UnassignedEmployees(employeeList, assignedIds) ==
    SelectSeq(employeeList, LAMBDA e : ~Includes(assignedIds, e.id))

(* Mutant: the swap guard checks one side only.                            *)
SwapAllowedOneSided(assignedIds, otherAssignedIds, empA, empB) ==
    ~Includes(assignedIds, empB)

(* !assignedIds.includes(empB) && !otherAssignedIds.includes(empA)         *)
SwapAllowed(assignedIds, otherAssignedIds, empA, empB) ==
    ~Includes(assignedIds, empB) /\ ~Includes(otherAssignedIds, empA)

(* Mutant: strategy A pushes the new employee instead of overwriting the   *)
(* replaced one.                                                           *)
ReplaceOutcomesAppending(mutated, employeeList, shiftList, sx) ==
    LET shiftId     == shiftList[sx].id
        assignedIds == GetOrEmpty(mutated, shiftId)
        unassigned  == UnassignedEmployees(employeeList, assignedIds)
    IN  IF unassigned = <<>>
        THEN {[schedule |-> mutated, move |-> "noop"]}
        ELSE {[schedule |->
                  MapSet(mutated, shiftId, Append(assignedIds, unassigned[u].id)),
               move |-> "reassign"]
              : u \in 1..Len(unassigned)}

(* Strategy A on the shift at index sx: every outcome of the random picks. *)
ReplaceOutcomes(mutated, employeeList, shiftList, sx) ==
    LET shiftId     == shiftList[sx].id
        assignedIds == GetOrEmpty(mutated, shiftId)
        unassigned  == UnassignedEmployees(employeeList, assignedIds)
    IN  IF unassigned = <<>>
        THEN {[schedule |-> mutated, move |-> "noop"]}
        ELSE {[schedule |->
                  MapSet(mutated, shiftId,
                         [assignedIds EXCEPT ![r] = unassigned[u].id]),
               move |-> "reassign"]
              : r \in 1..Len(assignedIds), u \in 1..Len(unassigned)}

(* Strategy B on the shifts at indices sx and ox.                          *)
SwapOutcomes(mutated, shiftList, sx, ox) ==
    LET shiftId          == shiftList[sx].id
        otherId          == shiftList[ox].id
        assignedIds      == GetOrEmpty(mutated, shiftId)
        otherAssignedIds == GetOrEmpty(mutated, otherId)
    IN  IF otherId = shiftId \/ assignedIds = <<>> \/ otherAssignedIds = <<>>
        THEN {[schedule |-> mutated, move |-> "noop"]}
        ELSE {IF SwapAllowed(assignedIds, otherAssignedIds,
                             assignedIds[a], otherAssignedIds[b])
              THEN [schedule |->
                       MapSet(MapSet(mutated, shiftId,
                                     [assignedIds EXCEPT ![a] = otherAssignedIds[b]]),
                              otherId,
                              [otherAssignedIds EXCEPT ![b] = assignedIds[a]]),
                    move |-> "swap"]
              ELSE [schedule |-> mutated, move |-> "noop"]
              : a \in 1..Len(assignedIds), b \in 1..Len(otherAssignedIds)}

(* Every neighbor mutateSchedule can return, with the move that made it.   *)
MutationOutcomes(schedule, employeeList, shiftList) ==
    LET mutated == cloneSchedule(schedule)
    IN  IF Len(shiftList) = 0 \/ Len(employeeList) = 0
        THEN {[schedule |-> mutated, move |-> "noop"]}
        ELSE UNION {
                \* strategy < 0.5 && assignedIds.length > 0
                (IF GetOrEmpty(mutated, shiftList[sx].id) # <<>>
                 THEN ReplaceOutcomes(mutated, employeeList, shiftList, sx)
                 ELSE {})
                \cup
                \* otherwise (either operand false)
                UNION {SwapOutcomes(mutated, shiftList, sx, ox)
                       : ox \in 1..Len(shiftList)}
                : sx \in 1..Len(shiftList)}

mutateSchedule(schedule, employeeList, shiftList) ==
    {o.schedule : o \in MutationOutcomes(schedule, employeeList, shiftList)}

---------------------------------------------------------------------------
(* Scheduler.runHeuristicSearch                                            *)

(* options.maxIterations || 5000.  An omitted option is written 0 here:    *)
(* undefined and 0 are both falsy and both give 5000.                      *)
MAX_ITERATIONS ==
    IF options.maxIterations = 0
    THEN DEFAULT_MAX_ITERATIONS ELSE options.maxIterations

(* Mutant: a hard violation weighs 1.                                      *)
EnergyUnweighted(hardViolations, softPenalty, employeeList) ==
    Len(hardViolations) * ScoreDen(employeeList) + softPenalty.score

(* (hardViolations.length * 10000) + softPenalty.score, times ScoreDen.    *)
Energy(hardViolations, softPenalty, employeeList) ==
    Len(hardViolations) * HARD_PENALTY * ScoreDen(employeeList) + softPenalty.score

(* options.startTemperature || 100.0, in TempScale units: an omitted       *)
(* option and 0 are both falsy and both give 100.                          *)
StartTemperature ==
    IF "startTemperature" \in DOMAIN options /\ options.startTemperature # 0
    THEN options.startTemperature
    ELSE DEFAULT_START_TEMPERATURE * TempScale

(* options.coolingRate || 0.95, in percent.                                *)
coolingRate ==
    IF "coolingRate" \in DOMAIN options /\ options.coolingRate # 0
    THEN options.coolingRate
    ELSE COOLING_RATE_PERCENT

(* Mutant: the product is not clamped to the floor.                        *)
CoolWithoutFloor(t) == (t * coolingRate) \div 100

(* temperature *= coolingRate; if (temperature < 0.0001) temperature = 0.0001 *)
Cool(t) ==
    LET cooled == (t * coolingRate) \div 100
    IN  IF cooled < 1 THEN 1 ELSE cooled

(* Math.random() < Math.exp((currentEnergy - neighborEnergy) / temperature) *)
(* in the else branch (neighborEnergy >= currentEnergy): the draw can      *)
(* succeed unless the probability underflows to 0, and can fail unless the *)
(* probability is 1 or more.  Under a negative temperature (a negative     *)
(* startTemperature, before the first cooling) the exponent is 0 or        *)
(* positive and the probability at least 1.                                *)
DrawCanSucceed(cur, nb, t, employeeList) ==
    \/ t < 0
    \/ nb - cur <= ((EXP_UNDERFLOW * t) \div TempScale) * ScoreDen(employeeList)

(* Mutant: a neighbor of equal energy can be rejected.                     *)
DrawCanFailOnTie(cur, nb, t) == nb >= cur /\ t > 0

DrawCanFail(cur, nb, t) == nb > cur /\ t > 0

(* Mutant: the soft violations are left out of the result.                 *)
EvaluationWithoutSoft(schedule, hardViolations, softPenalty) ==
    [schedule |-> schedule,
     isValid |-> Len(hardViolations) = 0,
     penaltyScore |-> softPenalty.score,
     constraintViolations |-> hardViolations]

(* Mutant: isValid is inverted.                                            *)
EvaluationInvertedValidity(schedule, hardViolations, softPenalty) ==
    [schedule |-> schedule,
     isValid |-> Len(hardViolations) > 0,
     penaltyScore |-> softPenalty.score,
     constraintViolations |-> hardViolations \o softPenalty.violations]

Evaluation(schedule, hardViolations, softPenalty) ==
    [schedule |-> schedule,
     isValid |-> Len(hardViolations) = 0,
     penaltyScore |-> softPenalty.score,
     constraintViolations |-> hardViolations \o softPenalty.violations]

(* Lines 170-190: options, initial schedule, its evaluation, best := current. *)
Start ==
    /\ pc = "start"
    /\ \E initial \in generateRandomInitialSchedule(employees, shifts) :
          LET hard == validateHardConstraints(initial, employees, shifts)
              soft == calculatePenaltyScore(initial, employees, shifts)
          IN  /\ currentSchedule' = initial
              /\ currentHardViolations' = hard
              /\ currentSoftPenalty' = soft
              /\ currentEnergy' = Energy(hard, soft, employees)
              /\ bestEnergy' = Energy(hard, soft, employees)
              /\ bestSchedule' = cloneSchedule(initial)
              /\ bestHardViolations' = hard
              /\ bestSoftPenalty' = soft
    /\ temperature' = StartTemperature
    /\ i' = 0
    /\ pc' = "loop"
    /\ UNCHANGED <<boundaryVars, streamVars>>
    /\ UNCHANGED <<employees, shifts, options, iterations, neighborSchedule, neighborEnergy,
                   lastMove, result, evalVars>>
    /\ UNCHANGED heapVars

(* Mutant: best follows every accepted neighbor.                           *)
UpdatesBestAlways(nb, cur, best) == TRUE

(* Mutant: line 210 is missing, best follows every improvement on current. *)
UpdatesBestBelowCurrent(nb, cur, best) == nb < cur

(* Lines 202 and 210: best is replaced by the neighbor exactly when the    *)
(* neighbor beats current and then beats best.                             *)
UpdatesBest(nb, cur, best) == nb < cur /\ nb < best

(* Mutant: lines 228-231 are outside the if of line 227, a neighbor whose  *)
(* draw failed becomes current all the same.                               *)
IterateTakingRejected ==
    /\ pc = "loop"
    /\ i < MAX_ITERATIONS
    /\ i < MaxIter
    /\ \E o \in MutationOutcomes(currentSchedule, employees, shifts),
          accepted \in BOOLEAN :
          LET hard == validateHardConstraints(o.schedule, employees, shifts)
              soft == calculatePenaltyScore(o.schedule, employees, shifts)
              nb   == Energy(hard, soft, employees)
              updates == UpdatesBest(nb, currentEnergy, bestEnergy)
          IN  /\ IF accepted
                 THEN \/ nb < currentEnergy
                      \/ DrawCanSucceed(currentEnergy, nb, temperature, employees)
                 ELSE /\ nb >= currentEnergy
                      /\ DrawCanFail(currentEnergy, nb, temperature)
              /\ neighborSchedule' = o.schedule
              /\ neighborEnergy' = nb
              /\ lastMove' = [move |-> o.move, accepted |-> accepted]
              /\ currentSchedule' = o.schedule
              /\ currentEnergy' = nb
              /\ currentHardViolations' = hard
              /\ currentSoftPenalty' = soft
              /\ IF updates
                 THEN /\ bestEnergy' = nb
                      /\ bestSchedule' = cloneSchedule(o.schedule)
                      /\ bestHardViolations' = hard
                      /\ bestSoftPenalty' = soft
                 ELSE UNCHANGED <<bestEnergy, bestSchedule,
                                  bestHardViolations, bestSoftPenalty>>
              /\ IF updates /\ nb = 0
                 THEN /\ pc' = "break"
                      /\ UNCHANGED <<i, temperature>>
                 ELSE /\ pc' = "loop"
                      /\ i' = i + 1
                      /\ temperature' = Cool(temperature)
    /\ iterations' = iterations + 1
    /\ UNCHANGED <<employees, shifts, options, result, evalVars, boundaryVars,
                   streamVars>>
    /\ UNCHANGED heapVars

(* Lines 193-242: one pass of the loop body.                               *)
Iterate ==
    /\ pc = "loop"
    /\ i < MAX_ITERATIONS
    /\ i < MaxIter
    /\ \E o \in MutationOutcomes(currentSchedule, employees, shifts) :
          LET hard == validateHardConstraints(o.schedule, employees, shifts)
              soft == calculatePenaltyScore(o.schedule, employees, shifts)
              nb   == Energy(hard, soft, employees)
          IN  /\ neighborSchedule' = o.schedule
              /\ neighborEnergy' = nb
              /\ \/ \* neighborEnergy < currentEnergy: accepted unconditionally
                    /\ nb < currentEnergy
                    /\ lastMove' = [move |-> o.move, accepted |-> TRUE]
                 \/ \* else branch, the Metropolis draw succeeds
                    /\ nb >= currentEnergy
                    /\ DrawCanSucceed(currentEnergy, nb, temperature, employees)
                    /\ lastMove' = [move |-> o.move, accepted |-> TRUE]
                 \/ \* else branch, the Metropolis draw fails
                    /\ nb >= currentEnergy
                    /\ DrawCanFail(currentEnergy, nb, temperature)
                    /\ lastMove' = [move |-> o.move, accepted |-> FALSE]
              /\ IF lastMove'.accepted
                 THEN /\ currentSchedule' = o.schedule
                      /\ currentEnergy' = nb
                      /\ currentHardViolations' = hard
                      /\ currentSoftPenalty' = soft
                 ELSE UNCHANGED <<currentSchedule, currentEnergy,
                                  currentHardViolations, currentSoftPenalty>>
              /\ IF lastMove'.accepted /\ UpdatesBest(nb, currentEnergy, bestEnergy)
                 THEN /\ bestEnergy' = nb
                      /\ bestSchedule' = cloneSchedule(o.schedule)
                      /\ bestHardViolations' = hard
                      /\ bestSoftPenalty' = soft
                 ELSE UNCHANGED <<bestEnergy, bestSchedule,
                                  bestHardViolations, bestSoftPenalty>>
              /\ IF lastMove'.accepted /\ UpdatesBest(nb, currentEnergy, bestEnergy)
                    /\ bestEnergy' = 0
                 THEN \* break: no cooling, no i++
                      /\ pc' = "break"
                      /\ UNCHANGED <<i, temperature>>
                 ELSE /\ pc' = "loop"
                      /\ i' = i + 1
                      /\ temperature' = Cool(temperature)
    /\ iterations' = iterations + 1
    /\ UNCHANGED <<employees, shifts, options, result, evalVars, boundaryVars, streamVars>>
    /\ UNCHANGED heapVars

(* Lines 244-249, reached when the loop condition fails or after break.    *)
Return ==
    /\ \/ pc = "break"
       \/ pc = "loop" /\ i >= MAX_ITERATIONS
    /\ result' = Evaluation(bestSchedule, bestHardViolations, bestSoftPenalty)
    /\ pc' = "done"
    /\ UNCHANGED <<boundaryVars, streamVars>>
    /\ UNCHANGED <<employees, shifts, options, i, iterations, temperature,
                   currentSchedule, currentEnergy, currentHardViolations,
                   currentSoftPenalty, bestSchedule, bestEnergy,
                   bestHardViolations, bestSoftPenalty, neighborSchedule,
                   neighborEnergy, lastMove, evalVars>>
    /\ UNCHANGED heapVars

---------------------------------------------------------------------------
(* Inputs of the search.                                                   *)

EmployeeCatalog == <<"e1", "e2", "e3", "e4", "e5">>

EmployeeList(n) == [x \in 1..n |-> Employee(EmployeeCatalog[x])]

(* w1 evening 14:00-22:00; w2 night 00:00-08:00 the next day (2 hours after *)
(* w1 ends); w3, w4 nights 22:00-06:00 of the following days.              *)
ShiftCatalog(minReq) ==
    << Shift("w1", 0, 14, 22, "evening", minReq),
       Shift("w2", 1, 24, 32, "night", minReq),
       Shift("w3", 1, 46, 54, "night", minReq),
       Shift("w4", 2, 70, 78, "night", minReq) >>

(* The shift lists searched: none; one shift asking for 1 or 2 employees;  *)
(* the pair w1, w2 (too little rest between them) asking for 1 or 2; w1,   *)
(* w2 and a night; three nights with enough rest between them.             *)
ShiftLists ==
    { <<>>,
      SubSeq(ShiftCatalog(1), 1, 1),
      SubSeq(ShiftCatalog(2), 1, 1),
      SubSeq(ShiftCatalog(1), 1, 2),
      SubSeq(ShiftCatalog(2), 1, 2),
      SubSeq(ShiftCatalog(1), 1, 3),
      SubSeq(ShiftCatalog(1), 2, 4) }

OptionsSet == {[maxIterations |-> k] : k \in 0..MaxIter}

EvalIdle ==
    /\ evalPc = "idle"
    /\ evalSchedule = <<>>
    /\ evalMove = "none"
    /\ hardResult = <<>>
    /\ softResult = NoPenalty

BoundaryIdle ==
    /\ isGenerating = FALSE
    /\ closureIsGenerating = FALSE
    /\ workerCreated = FALSE
    /\ handlerOwner = 0
    /\ promises = <<>>
    /\ workerInbox = <<>>
    /\ mainInbox = <<>>
    /\ handled = 0
    /\ posted = 0
    /\ errors = 0

StreamIdle ==
    /\ stream = <<>>
    /\ cursor = 0
    /\ runNo = 0
    /\ firstResult = NoResult

HeapIdle ==
    /\ arrays = <<>>
    /\ maps = <<>>
    /\ currentRef = 0
    /\ bestRef = 0
    /\ neighborRef = 0

SearchIdle ==
    /\ pc = "start"
    /\ i = 0
    /\ iterations = 0
    /\ temperature = 0
    /\ currentSchedule = <<>>
    /\ currentEnergy = 0
    /\ currentHardViolations = <<>>
    /\ currentSoftPenalty = NoPenalty
    /\ bestSchedule = <<>>
    /\ bestEnergy = 0
    /\ bestHardViolations = <<>>
    /\ bestSoftPenalty = NoPenalty
    /\ neighborSchedule = <<>>
    /\ neighborEnergy = 0
    /\ lastMove = NoMove
    /\ result = NoResult

Init ==
    /\ employees \in {EmployeeList(n) : n \in 0..MaxEmployees}
    /\ shifts \in ShiftLists
    /\ options \in OptionsSet
    /\ SearchIdle
    /\ EvalIdle
    /\ BoundaryIdle
    /\ HeapIdle
    /\ StreamIdle

Next == Start \/ Iterate \/ Return

Spec == Init /\ [][Next]_vars

---------------------------------------------------------------------------
(* The search called with a startTemperature and a coolingRate.            *)

(* Start temperatures a caller supplies, in TempScale units: 0 (falsy),    *)
(* -5.0, the floor 0.0001, 0.01 and 2.0.                                   *)
StartTemperatures == {0, -5 * TempScale, 1, 100, 2 * TempScale}

(* Cooling rates a caller supplies, in percent: 0 (falsy), -0.5, 0.01,     *)
(* 0.95 and 1.1.                                                           *)
CoolingRates == {0, -50, 1, 95, 110}

CoolingOptions ==
    {[maxIterations |-> MaxIter]}
    \cup {[maxIterations |-> MaxIter, startTemperature |-> t, coolingRate |-> r] :
              t \in StartTemperatures, r \in CoolingRates}

CoolingInit ==
    /\ employees = EmployeeList(2)
    /\ shifts = SubSeq(ShiftCatalog(1), 1, 2)
    /\ options \in CoolingOptions
    /\ SearchIdle
    /\ EvalIdle
    /\ BoundaryIdle
    /\ HeapIdle
    /\ StreamIdle

SpecCooling == CoolingInit /\ [][Next]_vars

---------------------------------------------------------------------------
(* The search over two employees and shift lists whose schedules have      *)
(* several energies (with the four shifts: none, a soft penalty, a hard    *)
(* violation, both), at the default temperature and at the floor, where a  *)
(* worse neighbor is never accepted.                                       *)

AnnealOptions ==
    {[maxIterations |-> k] : k \in 1..MaxIter}
    \cup {[maxIterations |-> MaxIter, startTemperature |-> 1, coolingRate |-> 95]}

AnnealInit ==
    /\ employees = EmployeeList(2)
    /\ shifts \in {SubSeq(ShiftCatalog(1), 1, 2), ShiftCatalog(1)}
    /\ options \in AnnealOptions
    /\ SearchIdle
    /\ EvalIdle
    /\ BoundaryIdle
    /\ HeapIdle
    /\ StreamIdle

SpecAnneal == AnnealInit /\ [][Next]_vars

---------------------------------------------------------------------------
(* The search with its schedules as objects.  A ScheduleMap is a Map       *)
(* object whose values are references to string[] objects; an assignment   *)
(* `x = y` of a schedule copies the reference, `[...ids]` and `new Map()`  *)
(* make new objects, and `ids[k] = e` writes to the object every holder of *)
(* the reference sees.  A heap h is [arrays, maps, ref]: the objects, and  *)
(* the Map the operation returned.  currentSchedule, bestSchedule and      *)
(* neighborSchedule keep the value each had when it was assigned.          *)

(* The value of the Map at address m.                                      *)
Deref(as, ms, m) ==
    [x \in 1..Len(ms[m]) |->
        [key |-> ms[m][x].key, value |-> as[ms[m][x].ref]]]

(* new Map() and one set(key, array) per entry, each array a new object    *)
(* (lines 66-81, 90-93).                                                   *)
Allocate(as, ms, schedule) ==
    [arrays |-> as \o [x \in 1..Len(schedule) |-> schedule[x].value],
     maps   |-> Append(ms, [x \in 1..Len(schedule) |->
                              [key |-> schedule[x].key, ref |-> Len(as) + x]]),
     ref    |-> Len(ms) + 1]

(* Mutant: cloned.set(shiftId, employeeIds), the arrays are shared.        *)
cloneSharingArrays(as, ms, m) ==
    [arrays |-> as, maps |-> Append(ms, ms[m]), ref |-> Len(ms) + 1]

(* cloneSchedule, lines 89-95: a new Map, and [...employeeIds] per entry.  *)
cloneOnHeap(as, ms, m) == Allocate(as, ms, Deref(as, ms, m))

(* mutated.get(shiftId): the reference stored under the key, 0 for none    *)
(* (the code then takes a new empty array, which no branch writes to).     *)
HeapRefOf(h, shiftId) ==
    LET entries == h.maps[h.ref]
        found   == {x \in 1..Len(entries) : entries[x].key = shiftId}
    IN  IF found = {} THEN 0 ELSE entries[CHOOSE x \in found : TRUE].ref

HeapArray(h, r) == IF r = 0 THEN <<>> ELSE h.arrays[r]

HeapNoop(h) ==
    [arrays |-> h.arrays, maps |-> h.maps, ref |-> h.ref, move |-> "noop"]

(* Strategy A, lines 118-127: assignedIds[employeeToReplaceIndex] = ...    *)
(* writes to the array mutated holds; mutated.set stores the reference it  *)
(* already holds.                                                          *)
HeapReplaceOutcomes(h, employeeList, shiftList, sx) ==
    LET at          == HeapRefOf(h, shiftList[sx].id)
        assignedIds == HeapArray(h, at)
        unassigned  == UnassignedEmployees(employeeList, assignedIds)
    IN  IF unassigned = <<>> THEN {HeapNoop(h)}
        ELSE {[arrays |-> [h.arrays EXCEPT ![at][r] = unassigned[u].id],
               maps |-> h.maps, ref |-> h.ref, move |-> "reassign"]
              : r \in 1..Len(assignedIds), u \in 1..Len(unassigned)}

(* Strategy B, lines 131-152.                                              *)
HeapSwapOutcomes(h, shiftList, sx, ox) ==
    LET at               == HeapRefOf(h, shiftList[sx].id)
        otherAt          == HeapRefOf(h, shiftList[ox].id)
        assignedIds      == HeapArray(h, at)
        otherAssignedIds == HeapArray(h, otherAt)
    IN  IF shiftList[ox].id = shiftList[sx].id
           \/ assignedIds = <<>> \/ otherAssignedIds = <<>>
        THEN {HeapNoop(h)}
        ELSE {IF SwapAllowed(assignedIds, otherAssignedIds,
                             assignedIds[a], otherAssignedIds[b])
              THEN [arrays |-> [h.arrays EXCEPT
                                   ![at][a] = otherAssignedIds[b],
                                   ![otherAt][b] = assignedIds[a]],
                    maps |-> h.maps, ref |-> h.ref, move |-> "swap"]
              ELSE HeapNoop(h)
              : a \in 1..Len(assignedIds), b \in 1..Len(otherAssignedIds)}

(* mutateSchedule, lines 103-156, on the Map at address m: every outcome,  *)
(* as the heap it leaves and the Map it returns.                           *)
mutateOnHeap(as, ms, m, employeeList, shiftList) ==
    LET mutated == cloneOnHeap(as, ms, m)
    IN  IF Len(shiftList) = 0 \/ Len(employeeList) = 0
        THEN {HeapNoop(mutated)}
        ELSE UNION {
                (IF HeapArray(mutated, HeapRefOf(mutated, shiftList[sx].id)) # <<>>
                 THEN HeapReplaceOutcomes(mutated, employeeList, shiftList, sx)
                 ELSE {})
                \cup
                UNION {HeapSwapOutcomes(mutated, shiftList, sx, ox)
                       : ox \in 1..Len(shiftList)}
                : sx \in 1..Len(shiftList)}

HeapInit ==
    /\ employees = EmployeeList(2)
    /\ shifts \in {SubSeq(ShiftCatalog(1), 1, 2),
                   SubSeq(ShiftCatalog(2), 1, 2),
                   SubSeq(ShiftCatalog(1), 1, 3)}
    /\ options \in {[maxIterations |-> k] : k \in 1..MaxIter}
    /\ SearchIdle
    /\ EvalIdle
    /\ BoundaryIdle
    /\ HeapIdle
    /\ StreamIdle

(* Lines 170-190.                                                          *)
HeapStart ==
    /\ pc = "start"
    /\ \E initial \in generateRandomInitialSchedule(employees, shifts) :
       \E made \in {Allocate(arrays, maps, initial)} :
       \E best \in {cloneOnHeap(made.arrays, made.maps, made.ref)} :
       \E hard \in {validateHardConstraints(initial, employees, shifts)} :
       \E soft \in {calculatePenaltyScore(initial, employees, shifts)} :
          /\ currentSchedule' = initial
          /\ currentRef' = made.ref
          /\ currentHardViolations' = hard
          /\ currentSoftPenalty' = soft
          /\ currentEnergy' = Energy(hard, soft, employees)
          /\ bestEnergy' = Energy(hard, soft, employees)
          /\ bestSchedule' = Deref(best.arrays, best.maps, best.ref)
          /\ bestRef' = best.ref
          /\ bestHardViolations' = hard
          /\ bestSoftPenalty' = soft
          /\ arrays' = best.arrays
          /\ maps' = best.maps
    /\ temperature' = StartTemperature
    /\ i' = 0
    /\ pc' = "loop"
    /\ UNCHANGED <<employees, shifts, options, iterations, neighborSchedule,
                   neighborEnergy, lastMove, result, neighborRef>>
    /\ UNCHANGED <<evalVars, boundaryVars, streamVars>>

(* Lines 193-242: one pass of the loop body.  The validator and the scorer *)
(* read the neighbor and write only to arrays they create themselves       *)
(* (part_010 lines 20-37, 88-107).                                         *)
HeapIterate ==
    /\ pc = "loop"
    /\ i < MAX_ITERATIONS
    /\ i < MaxIter
    /\ \E o \in mutateOnHeap(arrays, maps, currentRef, employees, shifts),
          accepted \in BOOLEAN :
       \E neighbor \in {Deref(o.arrays, o.maps, o.ref)} :
       \E hard \in {validateHardConstraints(neighbor, employees, shifts)} :
       \E soft \in {calculatePenaltyScore(neighbor, employees, shifts)} :
       \E nb \in {Energy(hard, soft, employees)} :
       \E updates \in {accepted /\ UpdatesBest(nb, currentEnergy, bestEnergy)} :
       \E best \in {IF updates THEN cloneOnHeap(o.arrays, o.maps, o.ref)
                     ELSE [arrays |-> o.arrays, maps |-> o.maps,
                           ref |-> bestRef]} :
          /\ IF accepted
             THEN \/ nb < currentEnergy
                  \/ DrawCanSucceed(currentEnergy, nb, temperature, employees)
             ELSE /\ nb >= currentEnergy
                  /\ DrawCanFail(currentEnergy, nb, temperature)
          /\ neighborSchedule' = neighbor
          /\ neighborRef' = o.ref
          /\ neighborEnergy' = nb
          /\ lastMove' = [move |-> o.move, accepted |-> accepted]
          /\ IF accepted
             THEN /\ currentSchedule' = neighbor
                  /\ currentRef' = o.ref
                  /\ currentEnergy' = nb
                  /\ currentHardViolations' = hard
                  /\ currentSoftPenalty' = soft
             ELSE UNCHANGED <<currentSchedule, currentRef, currentEnergy,
                              currentHardViolations, currentSoftPenalty>>
          /\ IF updates
             THEN /\ bestEnergy' = nb
                  /\ bestSchedule' = Deref(best.arrays, best.maps, best.ref)
                  /\ bestHardViolations' = hard
                  /\ bestSoftPenalty' = soft
             ELSE UNCHANGED <<bestEnergy, bestSchedule,
                              bestHardViolations, bestSoftPenalty>>
          /\ bestRef' = best.ref
          /\ arrays' = best.arrays
          /\ maps' = best.maps
          /\ IF updates /\ nb = 0
             THEN /\ pc' = "break"
                  /\ UNCHANGED <<i, temperature>>
             ELSE /\ pc' = "loop"
                  /\ i' = i + 1
                  /\ temperature' = Cool(temperature)
    /\ iterations' = iterations + 1
    /\ UNCHANGED <<employees, shifts, options, result>>
    /\ UNCHANGED <<evalVars, boundaryVars, streamVars>>

HeapNext == HeapStart \/ HeapIterate \/ Return

SpecHeap == HeapInit /\ [][HeapNext]_vars

---------------------------------------------------------------------------
(* The validator and the scorer applied to arbitrary schedules.            *)

(* Shift lists for the pure functions: three loose nights; a tight pair;   *)
(* a long shift listed out of start order, so that the pair with too       *)
(* little rest (a, c) is not adjacent in start order; rests of exactly 8   *)
(* hours.                                                                  *)
EvalShiftLists ==
    { SubSeq(ShiftCatalog(1), 2, 4),
      SubSeq(ShiftCatalog(1), 1, 3),
      << Shift("c", 1, 36, 40, "morning", 1),
         Shift("a", 0, 0, 30, "night", 1),
         Shift("b", 0, 10, 14, "morning", 1) >>,
      << Shift("x", 0, 0, 8, "night", 1),
         Shift("y", 0, 16, 24, "evening", 1),
         Shift("z", 1, 32, 40, "morning", 1) >> }

(* Every schedule with one entry per shift of shiftList, in list order,    *)
(* whose arrays hold at most `room` ids of idSet in all.                   *)
RECURSIVE Arrays(_, _)
Arrays(idSet, len) ==
    IF len = 0 THEN {<<>>}
    ELSE {Append(s, e) : s \in Arrays(idSet, len - 1), e \in idSet}

RECURSIVE EvalSchedules(_, _, _)
EvalSchedules(idSet, shiftList, room) ==
    IF shiftList = <<>> THEN {<<>>}
    ELSE UNION {
            {<<[key |-> Head(shiftList).id, value |-> v]>> \o rest :
                v \in Arrays(idSet, len),
                rest \in EvalSchedules(idSet, Tail(shiftList), room - len)}
            : len \in 0..room}

EvalInit ==
    /\ employees \in {EmployeeList(n) : n \in 0..HarnessEmployees}
    /\ shifts \in EvalShiftLists
    /\ options = [maxIterations |-> 0]
    /\ SearchIdle
    /\ evalPc = "ready"
    /\ evalSchedule \in EvalSchedules({employees[x].id : x \in 1..Len(employees)},
                                      shifts, MaxAssigned)
    /\ evalMove = "none"
    /\ hardResult = <<>>
    /\ softResult = NoPenalty
    /\ BoundaryIdle
    /\ HeapIdle
    /\ StreamIdle

Validate ==
    /\ evalPc = "ready"
    /\ hardResult' = validateHardConstraints(evalSchedule, employees, shifts)
    /\ evalPc' = "validated"
    /\ UNCHANGED <<searchVars, evalSchedule, evalMove, softResult, boundaryVars, streamVars>>
    /\ UNCHANGED heapVars

Score ==
    /\ evalPc = "ready"
    /\ softResult' = calculatePenaltyScore(evalSchedule, employees, shifts)
    /\ evalPc' = "scored"
    /\ UNCHANGED <<searchVars, evalSchedule, evalMove, hardResult, boundaryVars, streamVars>>
    /\ UNCHANGED heapVars

EvalNext == Validate \/ Score

SpecEval == EvalInit /\ [][EvalNext]_vars

---------------------------------------------------------------------------
(* The validator and the scorer applied to schedules that also name a      *)
(* shift id absent from shifts and an employee id absent from employees.   *)

UnknownShift == Shift("w9", 1, 26, 34, "night", 1)

UnknownEmployeeId == "e9"

UnknownInit ==
    /\ employees \in {EmployeeList(n) : n \in 0..2}
    /\ shifts \in {SubSeq(ShiftCatalog(1), 1, 2), SubSeq(ShiftCatalog(1), 2, 4)}
    /\ options = [maxIterations |-> 0]
    /\ SearchIdle
    /\ evalPc = "ready"
    /\ \E keyed \in {shifts \o <<UnknownShift>>, <<UnknownShift>> \o shifts} :
          evalSchedule \in
              EvalSchedules({employees[x].id : x \in 1..Len(employees)}
                                \cup {UnknownEmployeeId},
                            keyed, MaxAssigned)
    /\ evalMove = "none"
    /\ hardResult = <<>>
    /\ softResult = NoPenalty
    /\ BoundaryIdle
    /\ HeapIdle
    /\ StreamIdle

SpecUnknown == UnknownInit /\ [][EvalNext]_vars

---------------------------------------------------------------------------
(* The validator and the scorer applied to schedules of employees who have *)
(* vacation dates.                                                         *)

EmployeeOnVacation(id, dates) == [id |-> id, vacationDates |-> dates]

VacationInit ==
    /\ employees \in {<<EmployeeOnVacation("e1", v1),
                        EmployeeOnVacation("e2", v2)>> :
                          v1 \in SUBSET {0, 1}, v2 \in SUBSET {0, 1}}
    /\ shifts \in {SubSeq(ShiftCatalog(1), 1, 2), SubSeq(ShiftCatalog(1), 2, 4)}
    /\ options = [maxIterations |-> 0]
    /\ SearchIdle
    /\ evalPc = "ready"
    /\ evalSchedule \in EvalSchedules({"e1", "e2"}, shifts, MaxAssigned)
    /\ evalMove = "none"
    /\ hardResult = <<>>
    /\ softResult = NoPenalty
    /\ BoundaryIdle
    /\ HeapIdle
    /\ StreamIdle

SpecVacation == VacationInit /\ [][EvalNext]_vars

---------------------------------------------------------------------------
(* The mutation operator applied again and again to a seed schedule.       *)

MutateInit ==
    /\ employees \in {EmployeeList(n) : n \in 0..HarnessEmployees}
    /\ shifts \in ShiftLists
    /\ options = [maxIterations |-> 0]
    /\ SearchIdle
    /\ evalPc = "seed"
    /\ evalSchedule = <<>>
    /\ evalMove = "none"
    /\ hardResult = <<>>
    /\ softResult = NoPenalty
    /\ BoundaryIdle
    /\ HeapIdle
    /\ StreamIdle

Seed ==
    /\ evalPc = "seed"
    /\ evalSchedule' \in generateRandomInitialSchedule(employees, shifts)
    /\ evalPc' = "mutating"
    /\ UNCHANGED <<searchVars, evalMove, hardResult, softResult, boundaryVars, streamVars>>
    /\ UNCHANGED heapVars

Mutate ==
    /\ evalPc = "mutating"
    /\ \E o \in MutationOutcomes(evalSchedule, employees, shifts) :
          /\ evalSchedule' = o.schedule
          /\ evalMove' = o.move
    /\ UNCHANGED <<searchVars, evalPc, hardResult, softResult, boundaryVars, streamVars>>
    /\ UNCHANGED heapVars

MutateNext == Seed \/ Mutate

SpecMutate == MutateInit /\ [][MutateNext]_vars

---------------------------------------------------------------------------
(* The execution boundary: the useScheduler hook on the main thread and    *)
(* the worker entry point, with the two message queues between them.       *)

(* Database rows as the hook receives them. start_time and end_time are    *)
(* hours since the epoch; the local time zone is taken to be UTC.          *)
DbEmployee(id) == [id |-> id, first_name |-> "first", last_name |-> "last"]

DbShift(id, startHour, endHour) ==
    [id |-> id, start_time |-> startHour, end_time |-> endHour]

mapEmployeeToAlgo(emp) == Employee(emp.id)

mapShiftToAlgo(shift) ==
    LET hour == shift.start_time % 24
        type == IF hour >= 6 /\ hour < 14 THEN "morning"
                ELSE IF hour >= 14 /\ hour < 22 THEN "evening"
                ELSE IF hour >= 22 \/ hour < 6 THEN "night"
                ELSE "custom"
    IN  Shift(shift.id, shift.start_time \div 24, shift.start_time,
              shift.end_time, type, 1)

(* The request message of lines 86-92.                                     *)
ScheduleRequestPayload(dbEmployees, dbShifts) ==
    [employees |-> [x \in 1..Len(dbEmployees) |->
                        mapEmployeeToAlgo(dbEmployees[x])],
     shifts |-> [x \in 1..Len(dbShifts) |-> mapShiftToAlgo(dbShifts[x])],
     options |-> [maxIterations |-> HOOK_MAX_ITERATIONS]]

(* One record per call of generateSchedule: the state of the promise it    *)
(* returned, and whether the call went on to post a request.               *)
PromiseOf(state, reason, value, didPost) ==
    [state |-> state, reason |-> reason, value |-> value, posted |-> didPost]

(* resolve and reject settle a pending promise and leave a settled one.    *)
Settle(ps, k, state, reason, value) ==
    IF k \in 1..Len(ps) /\ ps[k].state = "pending"
    THEN [ps EXCEPT ![k] = PromiseOf(state, reason, value, ps[k].posted)]
    ELSE ps

(* generateSchedule, lines 57-94. The guard of line 59 reads the           *)
(* isGenerating the closure captured when it was created.                  *)
generateSchedule(dbEmployees, dbShifts) ==
    /\ Len(promises) < MaxCalls
    /\ IF closureIsGenerating
       THEN /\ promises' = Append(promises,
                PromiseOf("rejected", "Already generating a schedule.",
                          NoResult, FALSE))
            /\ UNCHANGED <<isGenerating, workerCreated, handlerOwner,
                           workerInbox>>
       ELSE /\ isGenerating' = TRUE
            /\ workerCreated' = TRUE
            /\ handlerOwner' = Len(promises) + 1
            /\ workerInbox' = Append(workerInbox,
                    ScheduleRequestPayload(dbEmployees, dbShifts))
            /\ promises' = Append(promises,
                    PromiseOf("pending", "", NoResult, TRUE))
    /\ UNCHANGED <<closureIsGenerating, mainInbox, handled, posted, errors>>
    /\ UNCHANGED <<searchVars, evalVars, streamVars>>
    /\ UNCHANGED heapVars

(* A render of the component after the state changed: useCallback, whose   *)
(* dependency is isGenerating, hands out a closure over the new value.     *)
Rerender ==
    /\ closureIsGenerating # isGenerating
    /\ closureIsGenerating' = isGenerating
    /\ UNCHANGED <<isGenerating, workerCreated, handlerOwner, promises,
                   workerInbox, mainInbox, handled, posted, errors>>
    /\ UNCHANGED <<searchVars, evalVars, streamVars>>
    /\ UNCHANGED heapVars

(* The evaluation the worker builds, lines 32-39.                          *)
WorkerEvaluation(request) ==
    [schedule |-> <<>>,
     isValid |-> FALSE,
     penaltyScore |-> STUB_PENALTY_SCORE,
     constraintViolations |-> <<>>]

(* Mutant: the handler posts nothing.                                      *)
WorkerPostsNothing(request) == <<>>

(* The messages self.onmessage posts for one request, line 42. Each        *)
(* carries the request it answers (observer).                              *)
WorkerPosts(request) ==
    <<[inResponseTo |-> request, data |-> WorkerEvaluation(request)]>>

(* self.onmessage of the worker, lines 18-43.                              *)
WorkerOnMessage ==
    /\ workerInbox # <<>>
    /\ workerInbox' = Tail(workerInbox)
    /\ mainInbox' = mainInbox \o WorkerPosts(Head(workerInbox))
    /\ handled' = handled + 1
    /\ posted' = posted + Len(WorkerPosts(Head(workerInbox)))
    /\ UNCHANGED <<isGenerating, closureIsGenerating, workerCreated,
                   handlerOwner, promises, errors>>
    /\ UNCHANGED <<searchVars, evalVars, streamVars>>
    /\ UNCHANGED heapVars

(* workerRef.current.onmessage, lines 76-79, as last installed.            *)
HookOnMessage ==
    /\ mainInbox # <<>>
    /\ mainInbox' = Tail(mainInbox)
    /\ isGenerating' = FALSE
    /\ promises' = Settle(promises, handlerOwner, "resolved", "",
                          Head(mainInbox).data)
    /\ UNCHANGED <<closureIsGenerating, workerCreated, handlerOwner,
                   workerInbox, handled, posted, errors>>
    /\ UNCHANGED <<searchVars, evalVars, streamVars>>
    /\ UNCHANGED heapVars

(* workerRef.current.onerror, lines 81-84, as last installed; the error    *)
(* event is the environment's.                                             *)
HookOnError ==
    /\ workerCreated
    /\ errors < MaxErrors
    /\ errors' = errors + 1
    /\ isGenerating' = FALSE
    /\ promises' = Settle(promises, handlerOwner, "rejected", "worker error",
                          NoResult)
    /\ UNCHANGED <<closureIsGenerating, workerCreated, handlerOwner,
                   workerInbox, mainInbox, handled, posted>>
    /\ UNCHANGED <<searchVars, evalVars, streamVars>>
    /\ UNCHANGED heapVars

(* The rows handed to generateSchedule: no employee or two; no shift, or   *)
(* an evening shift and the night shift that follows it.                   *)
DbEmployeeLists == { <<>>, <<DbEmployee("e1"), DbEmployee("e2")>> }

DbShiftLists ==
    { <<>>, <<DbShift("w1", 14, 22), DbShift("w2", 24, 32)>> }

BoundaryInit ==
    /\ employees = <<>>
    /\ shifts = <<>>
    /\ options = [maxIterations |-> 0]
    /\ SearchIdle
    /\ EvalIdle
    /\ BoundaryIdle
    /\ HeapIdle
    /\ StreamIdle

BoundaryNext ==
    \/ \E dbEmployees \in DbEmployeeLists, dbShifts \in DbShiftLists :
            generateSchedule(dbEmployees, dbShifts)
    \/ Rerender
    \/ WorkerOnMessage
    \/ HookOnMessage
    \/ HookOnError

SpecBoundary == BoundaryInit /\ [][BoundaryNext]_vars

---------------------------------------------------------------------------
(* The energy of lines 179-184 and 197-199 computed for two schedules over *)
(* the same employees and shifts.                                          *)

(* Every schedule that gives each shift of shiftList one employee of ids.  *)
RECURSIVE OneEach(_, _)
OneEach(ids, shiftList) ==
    IF shiftList = <<>> THEN {<<>>}
    ELSE {<<[key |-> Head(shiftList).id, value |-> <<e>>]>> \o rest :
            e \in ids, rest \in OneEach(ids, Tail(shiftList))}

(* A roster of one morning shift t0, 06:00-10:00, and LongNights night     *)
(* shifts of 4 hours, one every 12 hours, the first starting 2 hours after *)
(* t0 ends.                                                                *)
LongRoster ==
    <<Shift("t0", 0, 6, 10, "morning", 1)>> \o
    [k \in 1..LongNights |->
        Shift("n" \o ToString(k), (12 * k) \div 24, 12 * k, 12 * k + 4,
              "night", 1)]

(* On the long roster: every night to e1 and t0 to e2 (8 hours of rest     *)
(* everywhere, all nights on one employee) ...                             *)
LongAllNightsToOne ==
    [x \in 1..Len(LongRoster) |->
        [key |-> LongRoster[x].id,
         value |-> IF x = 1 THEN <<"e2">> ELSE <<"e1">>]]

(* ... and the nights alternating between e1 and e2, with t0 and the first *)
(* night, 2 hours apart, both on e1.                                       *)
LongAlternating ==
    [x \in 1..Len(LongRoster) |->
        [key |-> LongRoster[x].id,
         value |-> IF x = 1 \/ x % 2 = 0 THEN <<"e1">> ELSE <<"e2">>]]

EnergyProblems ==
    { [employees |-> EmployeeList(2),
       shifts |-> ShiftCatalog(1),
       schedules |-> OneEach({"e1", "e2"}, ShiftCatalog(1))],
      [employees |-> EmployeeList(2),
       shifts |-> LongRoster,
       schedules |-> {LongAllNightsToOne, LongAlternating}] }

EnergyInit ==
    /\ \E p \in EnergyProblems :
          /\ employees = p.employees
          /\ shifts = p.shifts
          /\ currentSchedule \in p.schedules
          /\ neighborSchedule \in p.schedules
    /\ options = [maxIterations |-> 0]
    /\ pc = "energyOfCurrent"
    /\ i = 0
    /\ iterations = 0
    /\ temperature = 0
    /\ currentEnergy = 0
    /\ currentHardViolations = <<>>
    /\ currentSoftPenalty = NoPenalty
    /\ bestSchedule = <<>>
    /\ bestEnergy = 0
    /\ bestHardViolations = <<>>
    /\ bestSoftPenalty = NoPenalty
    /\ neighborEnergy = 0
    /\ lastMove = NoMove
    /\ result = NoResult
    /\ EvalIdle
    /\ BoundaryIdle
    /\ HeapIdle
    /\ StreamIdle

(* Lines 179-184.                                                          *)
EvaluateCurrent ==
    /\ pc = "energyOfCurrent"
    /\ LET hard == validateHardConstraints(currentSchedule, employees, shifts)
           soft == calculatePenaltyScore(currentSchedule, employees, shifts)
       IN  /\ currentHardViolations' = hard
           /\ currentSoftPenalty' = soft
           /\ currentEnergy' = Energy(hard, soft, employees)
    /\ pc' = "energyOfNeighbor"
    /\ UNCHANGED <<employees, shifts, options, i, iterations, temperature,
                   currentSchedule, bestSchedule, bestEnergy,
                   bestHardViolations, bestSoftPenalty, neighborSchedule,
                   neighborEnergy, lastMove, result>>
    /\ UNCHANGED <<evalVars, boundaryVars, streamVars>>
    /\ UNCHANGED heapVars

(* Lines 197-199.                                                          *)
EvaluateNeighbor ==
    /\ pc = "energyOfNeighbor"
    /\ neighborEnergy' =
          Energy(validateHardConstraints(neighborSchedule, employees, shifts),
                 calculatePenaltyScore(neighborSchedule, employees, shifts),
                 employees)
    /\ pc' = "energiesKnown"
    /\ UNCHANGED <<employees, shifts, options, i, iterations, temperature,
                   currentSchedule, currentEnergy, currentHardViolations,
                   currentSoftPenalty, bestSchedule, bestEnergy,
                   bestHardViolations, bestSoftPenalty, neighborSchedule,
                   lastMove, result>>
    /\ UNCHANGED <<evalVars, boundaryVars, streamVars>>
    /\ UNCHANGED heapVars

EnergyNext == EvaluateCurrent \/ EvaluateNeighbor

SpecEnergy == EnergyInit /\ [][EnergyNext]_vars

---------------------------------------------------------------------------
(* runHeuristicSearch called twice on the same inputs, each call reading   *)
(* the same values from Math.random().  The stream repeats a seed of       *)
(* SeedLen values; a value is 0 (Math.random() returned 0) or 1 (it        *)
(* returned the largest number below 1).                                   *)

Draw(randomStream, k) == randomStream[((k - 1) % Len(randomStream)) + 1]

(* Math.floor(Math.random() * length), as a 1-based index.                 *)
IndexOf(draw, length) == IF draw = 0 THEN 1 ELSE length

(* Lines 74-80 with the values of the stream from position k on.           *)
RECURSIVE PickWith(_, _, _, _)
PickWith(availableEmployees, remaining, randomStream, k) ==
    IF remaining <= 0 \/ availableEmployees = <<>>
    THEN [assigned |-> <<>>, cursor |-> k]
    ELSE LET x    == IndexOf(Draw(randomStream, k), Len(availableEmployees))
             rest == PickWith(Splice(availableEmployees, x), remaining - 1,
                              randomStream, k + 1)
         IN  [assigned |-> <<availableEmployees[x].id>> \o rest.assigned,
              cursor |-> rest.cursor]

(* Lines 68-82.                                                            *)
RECURSIVE InitialWith(_, _, _, _, _)
InitialWith(schedule, employeeList, rest, randomStream, k) ==
    IF rest = <<>> THEN [schedule |-> schedule, cursor |-> k]
    ELSE LET picked == PickWith(employeeList, Head(rest).minRequiredEmployees,
                                randomStream, k)
         IN  InitialWith(MapSet(schedule, Head(rest).id, picked.assigned),
                         employeeList, Tail(rest), randomStream, picked.cursor)

(* mutateSchedule, lines 103-156, with the values of the stream from       *)
(* position k on.                                                          *)
mutateWith(schedule, employeeList, shiftList, randomStream, k) ==
    LET mutated == cloneSchedule(schedule)
    IN  IF Len(shiftList) = 0 \/ Len(employeeList) = 0
        THEN [schedule |-> mutated, move |-> "noop", cursor |-> k]
        ELSE
        LET sx          == IndexOf(Draw(randomStream, k), Len(shiftList))
            shiftId     == shiftList[sx].id
            assignedIds == GetOrEmpty(mutated, shiftId)
            strategyLow == Draw(randomStream, k + 1) = 0
        IN  IF strategyLow /\ assignedIds # <<>>
            THEN LET r == IndexOf(Draw(randomStream, k + 2), Len(assignedIds))
                     unassigned == UnassignedEmployees(employeeList, assignedIds)
                     u == IndexOf(Draw(randomStream, k + 3), Len(unassigned))
                 IN  IF unassigned = <<>>
                     THEN [schedule |-> mutated, move |-> "noop",
                           cursor |-> k + 3]
                     ELSE [schedule |->
                              MapSet(mutated, shiftId,
                                  [assignedIds EXCEPT ![r] = unassigned[u].id]),
                           move |-> "reassign", cursor |-> k + 4]
            ELSE LET ox == IndexOf(Draw(randomStream, k + 2), Len(shiftList))
                     otherId == shiftList[ox].id
                     otherAssignedIds == GetOrEmpty(mutated, otherId)
                     a == IndexOf(Draw(randomStream, k + 3), Len(assignedIds))
                     b == IndexOf(Draw(randomStream, k + 4),
                                  Len(otherAssignedIds))
                 IN  IF otherId = shiftId \/ assignedIds = <<>>
                            \/ otherAssignedIds = <<>>
                     THEN [schedule |-> mutated, move |-> "noop",
                           cursor |-> k + 3]
                     ELSE IF SwapAllowed(assignedIds, otherAssignedIds,
                                         assignedIds[a], otherAssignedIds[b])
                     THEN [schedule |->
                              MapSet(MapSet(mutated, shiftId,
                                  [assignedIds EXCEPT ![a] = otherAssignedIds[b]]),
                                  otherId,
                                  [otherAssignedIds EXCEPT ![b] = assignedIds[a]]),
                           move |-> "swap", cursor |-> k + 5]
                     ELSE [schedule |-> mutated, move |-> "noop",
                           cursor |-> k + 5]

(* Math.random() < acceptanceProbability, line 227: 0 is below every       *)
(* probability but 0, the largest number below 1 only below 1.             *)
DrawAccepts(draw, cur, nb, t, employeeList) ==
    IF draw = 0 THEN DrawCanSucceed(cur, nb, t, employeeList)
    ELSE ~DrawCanFail(cur, nb, t)

(* The locals of runHeuristicSearch after lines 170-190.                   *)
LocalsAfterStart(employeeList, shiftList, randomStream) ==
    LET init == InitialWith(<<>>, employeeList, shiftList, randomStream, 1)
        hard == validateHardConstraints(init.schedule, employeeList, shiftList)
        soft == calculatePenaltyScore(init.schedule, employeeList, shiftList)
    IN  [currentSchedule |-> init.schedule,
         currentHardViolations |-> hard,
         currentSoftPenalty |-> soft,
         currentEnergy |-> Energy(hard, soft, employeeList),
         bestEnergy |-> Energy(hard, soft, employeeList),
         bestSchedule |-> cloneSchedule(init.schedule),
         bestHardViolations |-> hard,
         bestSoftPenalty |-> soft,
         temperature |-> StartTemperature,
         cursor |-> init.cursor]

(* Mutant: bestEnergy outlives the call and is only ever lowered.          *)
RunKeepingBestEnergy(prior, employeeList, shiftList, randomStream) ==
    LET fresh == LocalsAfterStart(employeeList, shiftList, randomStream)
    IN  [fresh EXCEPT !.bestEnergy =
            IF prior.ran /\ prior.bestEnergy < @ THEN prior.bestEnergy ELSE @]

(* A call starts from its arguments alone: every local is declared inside  *)
(* the function (lines 170-190), whatever an earlier call (prior) left.    *)
FreshRun(prior, employeeList, shiftList, randomStream) ==
    LocalsAfterStart(employeeList, shiftList, randomStream)

StreamInit ==
    /\ employees = EmployeeList(2)
    /\ shifts \in {SubSeq(ShiftCatalog(1), 1, 2),
                   SubSeq(ShiftCatalog(1), 1, 3),
                   SubSeq(ShiftCatalog(1), 2, 4)}
    /\ options \in {[maxIterations |-> k] : k \in 1..MaxIter}
    /\ SearchIdle
    /\ EvalIdle
    /\ BoundaryIdle
    /\ HeapIdle
    /\ stream \in [1..SeedLen -> {0, 1}]
    /\ cursor = 1
    /\ runNo = 1
    /\ firstResult = NoResult

(* Lines 170-190 of the first call, and of the second once the first has   *)
(* returned.                                                               *)
StreamStart ==
    /\ pc = "start" \/ (pc = "done" /\ runNo = 1)
    /\ \E r \in {FreshRun([ran |-> pc = "done", bestEnergy |-> bestEnergy],
                            employees, shifts, stream)} :
           /\ currentSchedule' = r.currentSchedule
           /\ currentHardViolations' = r.currentHardViolations
           /\ currentSoftPenalty' = r.currentSoftPenalty
           /\ currentEnergy' = r.currentEnergy
           /\ bestEnergy' = r.bestEnergy
           /\ bestSchedule' = r.bestSchedule
           /\ bestHardViolations' = r.bestHardViolations
           /\ bestSoftPenalty' = r.bestSoftPenalty
           /\ temperature' = r.temperature
           /\ cursor' = r.cursor
    /\ i' = 0
    /\ iterations' = 0
    /\ neighborSchedule' = <<>>
    /\ neighborEnergy' = 0
    /\ lastMove' = NoMove
    /\ pc' = "loop"
    /\ runNo' = IF pc = "done" THEN 2 ELSE runNo
    /\ firstResult' = IF pc = "done" THEN result ELSE firstResult
    /\ UNCHANGED <<employees, shifts, options, result, stream, evalVars,
                   boundaryVars>>
    /\ UNCHANGED heapVars

(* One pass of the loop, lines 193-242, reading the stream.                *)
StreamIterate ==
    /\ pc = "loop"
    /\ i < MAX_ITERATIONS
    /\ LET m    == mutateWith(currentSchedule, employees, shifts, stream, cursor)
           hard == validateHardConstraints(m.schedule, employees, shifts)
           soft == calculatePenaltyScore(m.schedule, employees, shifts)
           nb   == Energy(hard, soft, employees)
           improving == nb < currentEnergy
           accepted  == improving
                        \/ DrawAccepts(Draw(stream, m.cursor), currentEnergy,
                                       nb, temperature, employees)
           updates   == accepted /\ UpdatesBest(nb, currentEnergy, bestEnergy)
       IN  /\ neighborSchedule' = m.schedule
           /\ neighborEnergy' = nb
           /\ lastMove' = [move |-> m.move, accepted |-> accepted]
           /\ cursor' = IF improving THEN m.cursor ELSE m.cursor + 1
           /\ IF accepted
              THEN /\ currentSchedule' = m.schedule
                   /\ currentEnergy' = nb
                   /\ currentHardViolations' = hard
                   /\ currentSoftPenalty' = soft
              ELSE UNCHANGED <<currentSchedule, currentEnergy,
                               currentHardViolations, currentSoftPenalty>>
           /\ IF updates
              THEN /\ bestEnergy' = nb
                   /\ bestSchedule' = cloneSchedule(m.schedule)
                   /\ bestHardViolations' = hard
                   /\ bestSoftPenalty' = soft
              ELSE UNCHANGED <<bestEnergy, bestSchedule,
                               bestHardViolations, bestSoftPenalty>>
           /\ IF updates /\ nb = 0
              THEN /\ pc' = "break"
                   /\ UNCHANGED <<i, temperature>>
              ELSE /\ pc' = "loop"
                   /\ i' = i + 1
                   /\ temperature' = Cool(temperature)
    /\ iterations' = iterations + 1
    /\ UNCHANGED <<employees, shifts, options, result, stream, runNo,
                   firstResult, evalVars, boundaryVars>>
    /\ UNCHANGED heapVars

StreamNext == StreamStart \/ StreamIterate \/ Return

SpecStream == StreamInit /\ [][StreamNext]_vars

---------------------------------------------------------------------------
(* Claims.                                                                 *)

ShiftIds(shiftList) == {shiftList[x].id : x \in 1..Len(shiftList)}

EmployeeIds(employeeList) == {employeeList[x].id : x \in 1..Len(employeeList)}

DuplicateFree(schedule) ==
    \A x \in 1..Len(schedule) : NoDuplicates(schedule[x].value)

\* C1: starting from the schedule built by generateRandomInitialSchedule,
\* after any number of mutateSchedule applications (reassignment or swap,
\* any random choices) no shift's array holds the same employee id twice.
C1_MutationSafety ==
    evalPc = "mutating" => DuplicateFree(evalSchedule)

\* C1 witness: a swap has just been applied to a schedule in which some
\* shift has two assignees, so that a duplicate was possible.
C1_Witness ==
    /\ evalPc = "mutating"
    /\ evalMove = "swap"
    /\ \E x \in 1..Len(evalSchedule) : Len(evalSchedule[x].value) >= 2

KeysAreShiftIds(schedule) ==
    /\ Range(MapKeys(schedule)) = ShiftIds(shifts)
    /\ Len(schedule) = Cardinality(ShiftIds(shifts))

\* C2: every schedule of a run of runHeuristicSearch (current, neighbor,
\* best-ever, returned) has exactly the ids of the input shifts as keys.
C2_ScheduleKeys ==
    /\ pc # "start" => /\ KeysAreShiftIds(currentSchedule)
                       /\ KeysAreShiftIds(bestSchedule)
    /\ iterations > 0 => KeysAreShiftIds(neighborSchedule)
    /\ pc = "done" => KeysAreShiftIds(result.schedule)

\* C2 witness: a run over several shifts and no employee (every entry is
\* empty) has produced a neighbor and returned.
C2_Witness ==
    /\ pc = "done"
    /\ iterations > 0
    /\ Len(shifts) >= 2
    /\ \A x \in 1..Len(result.schedule) : result.schedule[x].value = <<>>

\* C3: across the iterations of runHeuristicSearch the best-ever energy
\* never increases.
C3_BestEnergyMonotone ==
    [][pc # "start" => bestEnergy' <= bestEnergy]_vars

\* C3 witness: a worse neighbor was accepted as current while best-ever
\* kept the lower energy.
C3_Witness ==
    /\ pc = "loop"
    /\ lastMove.accepted
    /\ currentEnergy > bestEnergy

\* C4 (as claimed): whenever the best-ever energy is 0 at some point of a
\* run (also when the initial schedule already has energy 0), the loop stops
\* before performing maxIterations iterations and the result is valid.
C4_EarlyExit ==
    (pc = "done" /\ bestEnergy = 0) =>
        /\ iterations < MAX_ITERATIONS
        /\ result.isValid

\* C7 (as claimed): with zero employees and/or zero shifts the returned
\* schedule is the empty map, isValid is true, the score 0, no violations.
C7_EmptyInputEmptyMap ==
    (pc = "done" /\ (Len(employees) = 0 \/ Len(shifts) = 0)) =>
        result = [schedule |-> <<>>, isValid |-> TRUE, penaltyScore |-> 0,
                  constraintViolations |-> <<>>]

\* C7 (amended): with zero employees and/or zero shifts the returned
\* schedule assigns nobody: it has one entry with an empty array per input
\* shift (so it is the empty map when there is no shift); isValid is true,
\* the score 0, no violations.
C7_EmptyInput ==
    (pc = "done" /\ (Len(employees) = 0 \/ Len(shifts) = 0)) =>
        /\ result.schedule = [x \in 1..Len(shifts) |->
                                 [key |-> shifts[x].id, value |-> <<>>]]
        /\ result.isValid = TRUE
        /\ result.penaltyScore = 0
        /\ result.constraintViolations = <<>>

\* C7 witness: a run with no employee and some shifts has returned.
C7_Witness ==
    /\ pc = "done"
    /\ Len(employees) = 0
    /\ Len(shifts) > 0
    /\ iterations > 0

(* The entries of a schedule that assign employee id e.                    *)
EntriesOf(schedule, e) ==
    {x \in 1..Len(schedule) : Includes(schedule[x].value, e)}

(* The employee rests less than 8 hours between shift s1, which starts no  *)
(* later, and shift s2.                                                    *)
TooLittleRest(s1, s2) ==
    /\ s1.startTime <= s2.startTime
    /\ s2.startTime - s1.endTime < 8 * 60 * 60 * 1000

(* <<employee id, earlier shift id, later shift id>> of every pair of      *)
(* distinct shifts of one employee with too little rest between them.      *)
RestOffenders(schedule, employeeList, shiftList) ==
    {<<e, schedule[a].key, schedule[b].key>> :
        <<e, a, b>> \in
          {t \in EmployeeIds(employeeList) \X (1..Len(schedule)) \X (1..Len(schedule)) :
              /\ t[2] # t[3]
              /\ t[2] \in EntriesOf(schedule, t[1])
              /\ t[3] \in EntriesOf(schedule, t[1])
              /\ TooLittleRest(FindShift(shiftList, schedule[t[2]].key),
                               FindShift(shiftList, schedule[t[3]].key))}}

\* C5: for every schedule of the data model (no id twice in one array),
\* whenever some employee has two assigned shifts with less than 8
\* hours between the end of the earlier and the start of the later,
\* validateHardConstraints returns exactly one violation, a hard
\* MINIMUM_REST_VIOLATION naming such an employee and such a pair of shifts;
\* the list never has more than one element.
C5_RestViolationDetected ==
    (evalPc = "validated" /\ DuplicateFree(evalSchedule)) =>
        /\ Len(hardResult) <= 1
        /\ RestOffenders(evalSchedule, employees, shifts) # {} =>
              /\ Len(hardResult) = 1
              /\ hardResult[1].ruleCode = "MINIMUM_REST_VIOLATION"
              /\ hardResult[1].type = "hard"
              /\ Len(hardResult[1].employeeIds) = 1
              /\ Len(hardResult[1].shiftIds) = 2
              /\ <<hardResult[1].employeeIds[1], hardResult[1].shiftIds[1],
                   hardResult[1].shiftIds[2]>>
                     \in RestOffenders(evalSchedule, employees, shifts)

\* C5 witness: the validator ran on a schedule in which two employees have
\* too little rest, and one of the offending pairs is not adjacent in start
\* order.
C5_Witness ==
    /\ evalPc = "validated"
    /\ DuplicateFree(evalSchedule)
    /\ Cardinality({t[1] : t \in RestOffenders(evalSchedule, employees, shifts)}) >= 2
    /\ \E t \in RestOffenders(evalSchedule, employees, shifts) :
          t[2] = "a" /\ t[3] = "c"
    /\ Len(hardResult) = 1

(* No array holds an id twice, and every id is one of the employees.       *)
WellFormed(schedule, employeeList, shiftList) ==
    /\ DuplicateFree(schedule)
    /\ \A x \in 1..Len(schedule) :
          /\ schedule[x].key \in ShiftIds(shiftList)
          /\ Range(schedule[x].value) \subseteq EmployeeIds(employeeList)

(* The number of night shifts employee id e is assigned to.                *)
NightsAssigned(schedule, shiftList, e) ==
    Cardinality({x \in EntriesOf(schedule, e) :
                    FindShift(shiftList, schedule[x].key).type = "night"})

(* n * (nights(e) - mean), for the employee at index x of the list.        *)
ScaledDeviation(schedule, employeeList, shiftList, x) ==
    LET n     == Len(employeeList)
        total == SumSeq([y \in 1..n |->
                           NightsAssigned(schedule, shiftList, employeeList[y].id)])
    IN  n * NightsAssigned(schedule, shiftList, employeeList[x].id) - total

C8_SingleSearchInFlight ==
    \A j \in 1..Len(promises), k \in 1..Len(promises) :
        (j < k /\ promises[j].state = "pending") =>
            /\ promises[k].state = "rejected"
            /\ promises[k].reason = "Already generating a schedule."
            /\ ~promises[k].posted

(* What every Evaluation returned by runHeuristicSearch(employees, shifts, *)
(* options) satisfies: its keys are the ids of the shifts, and isValid,    *)
(* penaltyScore and constraintViolations are the validator's and the       *)
(* scorer's verdict on its schedule.                                       *)
IsSearchEvaluation(ev, request) ==
    LET hard == validateHardConstraints(ev.schedule, request.employees,
                                        request.shifts)
        soft == calculatePenaltyScore(ev.schedule, request.employees,
                                      request.shifts)
    IN  /\ Range(MapKeys(ev.schedule)) = ShiftIds(request.shifts)
        /\ ev.isValid = (Len(hard) = 0)
        /\ ev.penaltyScore * ScoreDen(request.employees) = soft.score
        /\ ev.constraintViolations = hard \o soft.violations

\* C9 (as claimed): the Evaluation the worker posts in response to a request
\* {employees, shifts, options} is an Evaluation of runHeuristicSearch for
\* that request.
C9_WorkerRunsSearch ==
    \A x \in 1..Len(mainInbox) :
        IsSearchEvaluation(mainInbox[x].data, mainInbox[x].inResponseTo)

\* C10: every request the worker's onmessage handles posts exactly one
\* message: the messages posted are as many as the requests handled, and each
\* is either waiting for the main thread or was delivered to it.
C10_OneResponsePerRequest ==
    /\ posted = handled
    /\ Len(mainInbox) <= handled
    /\ handled + Len(workerInbox) =
          Cardinality({k \in 1..Len(promises) : promises[k].posted})

\* C10 witness: the worker handled two requests and posted two responses, one
\* of them still on its way to the main thread.
C10_Witness ==
    /\ handled = 2
    /\ posted = 2
    /\ Len(mainInbox) = 1

\* C11 (as claimed): an error event of the worker rejects the promise of
\* every call still waiting for its response (none is resolved by it) and
\* sets isGenerating to false; a delivered response sets isGenerating to
\* false; and a call made through a closure rendered with isGenerating false
\* is accepted: its promise is pending and its request posted.
C11_FailureRejectsAndFrees ==
    [][ /\ errors' = errors + 1 =>
              /\ isGenerating' = FALSE
              /\ \A k \in 1..Len(promises) :
                    promises[k].state = "pending" =>
                        promises'[k].state = "rejected"
        /\ Len(mainInbox') < Len(mainInbox) => isGenerating' = FALSE
        /\ (Len(promises') = Len(promises) + 1 /\ ~closureIsGenerating) =>
              /\ promises'[Len(promises')].state = "pending"
              /\ workerInbox' # workerInbox ]_vars

HardCount(schedule) ==
    Len(validateHardConstraints(schedule, employees, shifts))

SoftScore(schedule) ==
    calculatePenaltyScore(schedule, employees, shifts).score

\* C12: for two schedules A and B over the same employees and shifts, with
\* energy = 10000 * (hard violations) + soft score: if A has no hard
\* violation and a soft score below 10000 and B has at least one hard
\* violation, then energy(A) < energy(B).
C12_HardDominatesBelowCap ==
    (/\ pc = "energiesKnown"
     /\ HardCount(currentSchedule) = 0
     /\ SoftScore(currentSchedule) < HARD_PENALTY * ScoreDen(employees)
     /\ HardCount(neighborSchedule) >= 1)
        => currentEnergy < neighborEnergy

\* C12 witness: a valid A with a positive soft score and an invalid B whose
\* soft score is smaller, both evaluated.
C12_Witness ==
    /\ pc = "energiesKnown"
    /\ HardCount(currentSchedule) = 0
    /\ SoftScore(currentSchedule) > SoftScore(neighborSchedule)
    /\ SoftScore(currentSchedule) < HARD_PENALTY * ScoreDen(employees)
    /\ HardCount(neighborSchedule) >= 1

\* C13 (as claimed): for two schedules A and B over the same employees and
\* shifts, if A has no hard violation and B has at least one, then
\* energy(A) < energy(B), however large the soft score of A.
C13_ValidOutranksInvalid ==
    (/\ pc = "energiesKnown"
     /\ HardCount(currentSchedule) = 0
     /\ HardCount(neighborSchedule) >= 1)
        => currentEnergy < neighborEnergy

HardViolationsIn(violations) ==
    SelectSeq(violations, LAMBDA v : v.type = "hard")

\* C14: the Evaluation returned by runHeuristicSearch holds the best-ever
\* schedule; its constraintViolations is validateHardConstraints of that
\* schedule followed by the violations of calculatePenaltyScore of it, its
\* penaltyScore is the score of calculatePenaltyScore of it, and isValid is
\* true exactly when the list holds no hard violation.
C14_OutputConsistency ==
    pc = "done" =>
        LET hard == validateHardConstraints(result.schedule, employees, shifts)
            soft == calculatePenaltyScore(result.schedule, employees, shifts)
        IN  /\ result.schedule = bestSchedule
            /\ result.constraintViolations = hard \o soft.violations
            /\ result.penaltyScore = soft.score
            /\ result.isValid =
                  (HardViolationsIn(result.constraintViolations) = <<>>)
            /\ bestEnergy = Energy(hard, soft, employees)

\* C14 witness: a search of at least one iteration that found no valid
\* schedule returned isValid false and the hard violation of its best-ever
\* schedule.
C14_Witness ==
    /\ pc = "done"
    /\ iterations > 0
    /\ ~result.isValid
    /\ HardViolationsIn(result.constraintViolations) # <<>>
    /\ bestEnergy >= HARD_PENALTY * ScoreDen(employees)

(* The schedule without the keys that are no shift of shiftList and        *)
(* without the ids that are no employee of employeeList.                   *)
KnownOnly(schedule, employeeList, shiftList) ==
    LET kept == SelectSeq(schedule, LAMBDA en : HasShift(shiftList, en.key))
    IN  [x \in 1..Len(kept) |->
            [key |-> kept[x].key,
             value |-> SelectSeq(kept[x].value,
                          LAMBDA e : e \in EmployeeIds(employeeList))]]

\* C15 (as claimed): removing from a schedule every shift id that is not in
\* shifts and every employee id that is not in employees does not change
\* the result of validateHardConstraints.
C15_ValidatorIgnoresUnknown ==
    (evalPc = "validated" /\ DuplicateFree(evalSchedule)) =>
        hardResult = validateHardConstraints(
                        KnownOnly(evalSchedule, employees, shifts),
                        employees, shifts)

\* C16 (as claimed): the score and the violations of calculatePenaltyScore
\* are those of the schedule restricted to the employees in employees and
\* the shifts in shifts: nights of an unknown employee id change neither the
\* mean nor the violations.
C16_ScorerIgnoresUnknown ==
    (evalPc = "scored" /\ DuplicateFree(evalSchedule)) =>
        softResult = calculatePenaltyScore(
                        KnownOnly(evalSchedule, employees, shifts),
                        employees, shifts)

(* Some employee is assigned to a shift whose date is one of the           *)
(* employee's vacationDates.                                               *)
AssignedOnVacation(schedule, employeeList, shiftList) ==
    \E x \in 1..Len(schedule), e \in 1..Len(employeeList) :
        /\ HasShift(shiftList, schedule[x].key)
        /\ Includes(schedule[x].value, employeeList[e].id)
        /\ FindShift(shiftList, schedule[x].key).date
              \in employeeList[e].vacationDates

\* C17 (as claimed): for every schedule that assigns an employee to a shift
\* whose date is in that employee's vacationDates, validateHardConstraints
\* returns a non-empty list.
C17_VacationIsHard ==
    (/\ evalPc = "validated"
     /\ DuplicateFree(evalSchedule)
     /\ AssignedOnVacation(evalSchedule, employees, shifts))
        => hardResult # <<>>

(* Every shift that asks for no more employees than there are has at least *)
(* minRequiredEmployees assignees in the schedule.                         *)
Covered(schedule) ==
    \A x \in 1..Len(shifts) :
        Len(employees) >= shifts[x].minRequiredEmployees =>
            /\ MapHas(schedule, shifts[x].id)
            /\ Len(MapGet(schedule, shifts[x].id))
                  >= shifts[x].minRequiredEmployees

\* C18: whenever there are at least minRequiredEmployees employees, a shift
\* has at least minRequiredEmployees assignees in the initial schedule, in
\* every current, neighbor and best-ever schedule of the search and in the
\* returned schedule.
C18_MinimumCoverage ==
    /\ pc # "start" => /\ Covered(currentSchedule)
                       /\ Covered(bestSchedule)
    /\ iterations > 0 => Covered(neighborSchedule)
    /\ pc = "done" => Covered(result.schedule)

\* C18 witness: with two employees, a mutation has just replaced the
\* assignee of a shift asking for one, and the neighbor is still covered.
C18_Witness ==
    /\ iterations > 0
    /\ Len(employees) = 2
    /\ lastMove.move = "reassign"
    /\ \E x \in 1..Len(shifts) : shifts[x].minRequiredEmployees = 1
    /\ Covered(neighborSchedule)

C20_StopsAtCap ==
    iterations <= options.maxIterations

Min(a, b) == IF a <= b THEN a ELSE b

(* Every array of exactly min(minRequiredEmployees, number of employees)   *)
(* pairwise distinct ids of the employees list.                            *)
Fills(employeeList, shift) ==
    {a \in Arrays(EmployeeIds(employeeList),
                  Min(shift.minRequiredEmployees, Len(employeeList))) :
        NoDuplicates(a)}

\* C23: generateRandomInitialSchedule gives every shift, in list order, an
\* array of exactly min(minRequiredEmployees, number of employees) pairwise
\* distinct ids of the employees list; the shifts are filled independently
\* (any shift's array can be any such array whatever the others hold), and
\* no hard constraint is looked at.
C23_InitialFill ==
    /\ (evalPc = "mutating" /\ evalMove = "none") =>
          /\ Len(evalSchedule) = Len(shifts)
          /\ \A x \in 1..Len(shifts) :
                /\ evalSchedule[x].key = shifts[x].id
                /\ evalSchedule[x].value \in Fills(employees, shifts[x])
    /\ evalPc = "seed" =>
          \A s \in generateRandomInitialSchedule(employees, shifts) :
              \A x \in 1..Len(shifts) :
                  \A a \in Fills(employees, shifts[x]) :
                      [s EXCEPT ![x].value = a]
                          \in generateRandomInitialSchedule(employees, shifts)

\* C23 witness: a shift asking for two employees has just been filled from
\* a list of one, next to a schedule that breaks the rest constraint.
C23_Witness ==
    /\ evalPc = "mutating"
    /\ evalMove = "none"
    /\ Len(employees) = 1
    /\ Len(shifts) = 2
    /\ shifts[1].minRequiredEmployees = 2
    /\ evalSchedule[1].value = <<"e1">>
    /\ validateHardConstraints(evalSchedule, employees, shifts) # <<>>

(* How many times a schedule assigns employee id e, over all its shifts.   *)
Occurrences(schedule, e) ==
    SumSeq([x \in 1..Len(schedule) |->
               Cardinality({y \in 1..Len(schedule[x].value) :
                               schedule[x].value[y] = e})])

(* The entries in which two schedules with the same keys differ, and the   *)
(* positions at which entry x differs.                                     *)
ChangedEntries(before, after) ==
    {x \in 1..Len(before) : before[x].value # after[x].value}

ChangedSlots(before, after, x) ==
    {y \in 1..Len(before[x].value) : before[x].value[y] # after[x].value[y]}

(* One mutateSchedule application, from schedule `before` to `after`.      *)
StaffingKept(before, after, move) ==
    /\ Len(after) = Len(before)
    /\ \A x \in 1..Len(before) :
          /\ after[x].key = before[x].key
          /\ Len(after[x].value) = Len(before[x].value)
    /\ Cardinality(ChangedEntries(before, after)) <= 2
    /\ \A x \in ChangedEntries(before, after) :
          Cardinality(ChangedSlots(before, after, x)) = 1
    /\ move = "swap" =>
          \A e \in EmployeeIds(employees) :
              Occurrences(after, e) = Occurrences(before, e)
    /\ move = "reassign" => Cardinality(ChangedEntries(before, after)) = 1
    /\ move = "noop" => after = before

\* C27: every mutateSchedule application keeps the keys and the number of
\* assignees of every shift, and changes at most one assignee in at most
\* two shifts (a swap keeps how often each employee is assigned over the
\* whole schedule); so after any number of mutations of the initial
\* schedule every shift still has min(minRequiredEmployees, number of
\* employees) assignees: never more than asked for, and still too few where
\* the initial schedule had too few.
C27_StaffingPreserved ==
    /\ [][(evalPc = "mutating" /\ evalPc' = "mutating") =>
              StaffingKept(evalSchedule, evalSchedule', evalMove')]_vars
    /\ [](evalPc = "mutating" =>
              \A x \in 1..Len(shifts) :
                  Len(evalSchedule[x].value)
                      = Min(shifts[x].minRequiredEmployees, Len(employees)))

\* C27 witness: a swap between two shifts of two assignees each, out of
\* three employees.
C27_Witness ==
    /\ evalPc = "mutating"
    /\ evalMove = "swap"
    /\ Len(employees) = 3
    /\ Len(evalSchedule) = 2
    /\ \A x \in 1..Len(evalSchedule) : Len(evalSchedule[x].value) = 2

(* Every employee id a schedule names.                                     *)
AssignedIds(schedule) ==
    UNION {Range(schedule[x].value) : x \in 1..Len(schedule)}

(* The two shifts share an instant.                                        *)
Overlap(s1, s2) ==
    s1.startTime < s2.endTime /\ s2.startTime < s1.endTime

(* <<employee id, entry, entry>> for every two distinct entries that both  *)
(* assign the employee.                                                    *)
SharedEntries(schedule) ==
    {t \in AssignedIds(schedule) \X (1..Len(schedule)) \X (1..Len(schedule)) :
        /\ t[2] # t[3]
        /\ t[2] \in EntriesOf(schedule, t[1])
        /\ t[3] \in EntriesOf(schedule, t[1])}

EveryPairRested(schedule, shiftList) ==
    \A t \in SharedEntries(schedule) :
        LET s1 == FindShift(shiftList, schedule[t[2]].key)
            s2 == FindShift(shiftList, schedule[t[3]].key)
        IN  s1.startTime <= s2.startTime =>
                s2.startTime - s1.endTime >= 8 * 60 * 60 * 1000

SomePairOverlaps(schedule, shiftList) ==
    \E t \in SharedEntries(schedule) :
        Overlap(FindShift(shiftList, schedule[t[2]].key),
                FindShift(shiftList, schedule[t[3]].key))

\* C25: when every shift ends after it starts, validateHardConstraints
\* returns the empty list for a schedule of the data model exactly when,
\* for every employee id in it and every two distinct shifts assigned to
\* that id (adjacent in start order or not), the one starting later starts
\* at least 8 hours after the other ends; an employee on two overlapping
\* shifts makes the list non-empty.
C25_RestCheckComplete ==
    (/\ evalPc = "validated"
     /\ DuplicateFree(evalSchedule)
     /\ \A x \in 1..Len(shifts) : shifts[x].endTime > shifts[x].startTime) =>
        /\ hardResult = <<>> <=> EveryPairRested(evalSchedule, shifts)
        /\ SomePairOverlaps(evalSchedule, shifts) => hardResult # <<>>

\* C25 witness: one employee holds three shifts; the first and the last in
\* start order (a and c, not adjacent) are 6 hours apart, a and b overlap,
\* and the validator reports the pair (a, b).
C25_Witness ==
    /\ evalPc = "validated"
    /\ Len(shifts) = 3
    /\ shifts[2].id = "a"
    /\ \A x \in 1..3 : evalSchedule[x].value = <<"e1">>
    /\ SomePairOverlaps(evalSchedule, shifts)
    /\ FindShift(shifts, "c").startTime - FindShift(shifts, "a").endTime
          < 8 * 60 * 60 * 1000
    /\ hardResult # <<>>
    /\ hardResult[1].shiftIds = <<"a", "b">>

\* C24: for every startTemperature and coolingRate a caller supplies, the
\* temperature an iteration uses for the acceptance probability is never
\* zero; after the cooling step of an iteration it is at least the floor
\* 0.0001; and when the cooling rate in effect is below 1 and the start
\* temperature in effect above the floor, it never rises from one iteration
\* to the next.
C24_TemperatureFloor ==
    /\ [](pc = "loop" => temperature # 0)
    /\ [][(pc = "loop" /\ pc' = "loop") => temperature' >= 1]_vars
    /\ [][(pc = "loop" /\ pc' = "loop" /\ coolingRate < 100
              /\ StartTemperature > 1) => temperature' <= temperature]_vars

\* C24 witness: a negative cooling rate made the product negative, and the
\* temperature of the next iteration is the floor.
C24_Witness ==
    /\ pc = "loop"
    /\ i >= 1
    /\ i < MAX_ITERATIONS
    /\ coolingRate < 0
    /\ StartTemperature > 1
    /\ temperature = 1

(* The energy lines 179-184 and 197-199 give a schedule.                   *)
EnergyOf(schedule) ==
    Energy(validateHardConstraints(schedule, employees, shifts),
           calculatePenaltyScore(schedule, employees, shifts), employees)

(* current is the neighbor of the iteration just made, with its evaluation. *)
CurrentIsNeighbor ==
    /\ currentSchedule' = neighborSchedule'
    /\ currentEnergy' = neighborEnergy'
    /\ currentHardViolations'
          = validateHardConstraints(neighborSchedule', employees, shifts)
    /\ currentSoftPenalty'
          = calculatePenaltyScore(neighborSchedule', employees, shifts)

\* C21: in every iteration, a neighbor of strictly lower energy becomes
\* current (schedule, energy, hard violations, soft penalty); any other
\* neighbor becomes current exactly when the Metropolis draw succeeds, and
\* when it is rejected the current schedule, its energy and evaluation and
\* the best-ever state are all unchanged.
C21_AcceptReject ==
    [][iterations' = iterations + 1 =>
          /\ neighborEnergy' < currentEnergy =>
                lastMove'.accepted /\ CurrentIsNeighbor
          /\ lastMove'.accepted => CurrentIsNeighbor
          /\ ~lastMove'.accepted =>
                UNCHANGED <<currentSchedule, currentEnergy,
                            currentHardViolations, currentSoftPenalty,
                            bestSchedule, bestEnergy, bestHardViolations,
                            bestSoftPenalty>>]_vars

\* C21 witness: a neighbor that differs from current and has a higher
\* energy has just been rejected.
C21_Witness ==
    /\ iterations > 0
    /\ ~lastMove.accepted
    /\ lastMove.move # "noop"
    /\ neighborEnergy > currentEnergy
    /\ neighborSchedule # currentSchedule

\* C26: at every point of runHeuristicSearch bestEnergy <= currentEnergy,
\* bestSchedule is a schedule whose energy is bestEnergy, and bestEnergy is
\* the least energy among the initial schedule and the neighbors evaluated
\* so far, accepted or not: it starts as the energy of the initial schedule
\* and every iteration leaves it the smaller of its old value and the
\* energy of the neighbor.
C26_BestIsMinimum ==
    /\ [](pc # "start" =>
              /\ bestEnergy <= currentEnergy
              /\ EnergyOf(bestSchedule) = bestEnergy)
    /\ [][/\ pc = "start" => bestEnergy' = EnergyOf(currentSchedule')
          /\ iterations' = iterations + 1 =>
                /\ neighborEnergy' = EnergyOf(neighborSchedule')
                /\ bestEnergy' = Min(bestEnergy, neighborEnergy')]_vars

\* C26 witness: after two iterations current is the neighbor just accepted,
\* with a hard violation, while best-ever still holds a schedule that has
\* only a soft penalty.
C26_Witness ==
    /\ iterations = 2
    /\ lastMove.accepted
    /\ bestEnergy > 0
    /\ bestEnergy < HARD_PENALTY * ScoreDen(employees)
    /\ currentEnergy >= HARD_PENALTY * ScoreDen(employees)
    /\ EnergyOf(bestSchedule) = bestEnergy

\* C28: a neighbor whose energy equals the current energy (a no-op
\* neighbor included) is always accepted and becomes current, at any
\* temperature, and best-ever schedule and energy are not updated.
C28_TiesAccepted ==
    [][(iterations' = iterations + 1 /\ neighborEnergy' = currentEnergy) =>
          /\ lastMove'.accepted
          /\ CurrentIsNeighbor
          /\ UNCHANGED <<bestSchedule, bestEnergy>>]_vars

\* C28 witness: at the floor temperature, a neighbor that differs from the
\* schedule it was made from and has the same energy has become current.
C28_Witness ==
    /\ iterations > 0
    /\ temperature = 1
    /\ lastMove.accepted
    /\ lastMove.move = "swap"
    /\ currentSchedule = neighborSchedule
    /\ currentSchedule # bestSchedule
    /\ currentEnergy = bestEnergy
    /\ iterations = 1

(* How many of the first k calls posted a request: call k, if it posted,   *)
(* posted the request of that number.                                      *)
RequestNumber(ps, k) ==
    Cardinality({j \in 1..k : ps[j].posted})

\* C29 (as claimed): the promise of every call that posted a request is
\* settled once the worker has answered every posted request and the
\* answers were delivered; a settled promise never changes; and a promise
\* is resolved only by the response to the request its own call posted
\* (responses are delivered in the order of the requests).  Runs without a
\* worker error are enough to decide it.
C29_OwnResultForEveryCall ==
    /\ []((errors = 0 /\ workerInbox = <<>> /\ mainInbox = <<>>) =>
              \A k \in 1..Len(promises) :
                  promises[k].posted => promises[k].state # "pending")
    /\ [][\A k \in 1..Len(promises) :
              promises[k].state # "pending" => promises'[k] = promises[k]]_vars
    /\ [][\A k \in 1..Len(promises) :
              (/\ errors = 0
               /\ promises[k].state = "pending"
               /\ promises'[k].state = "resolved") =>
                  RequestNumber(promises, k) = handled - Len(mainInbox) + 1]_vars

(* The addresses of the arrays the Map at address m holds.                 *)
ArraysOf(ms, m) == {ms[m][x].ref : x \in 1..Len(ms[m])}

=============================================================================
